---- MODULE Spec2Model ----
(***************************************************************************)
(* A model of the Redemption probability simulation: the zone/deck data    *)
(* model (src/models.py, src/models_v2.py), the trigger resolver and the   *)
(* trial drivers (src/simulation.py, src/spectrograph_simulation.py).      *)
(*                                                                         *)
(* A card is a record; a zone is the sequence of its cards, index 1 being  *)
(* the top (Python index 0).  Python's None is the record None.  An        *)
(* exception that escapes a handler is recorded in err and ends the run.   *)
(***************************************************************************)
EXTENDS Integers, Sequences, FiniteSets, TLC

VARIABLES
    prog,         \* which program is running
    cfg,          \* the constructor arguments of the simulation object
    deck,         \* self.deck.cards
    hand,         \* self.hand.cards
    territory,    \* self.territory.cards
    discard,      \* self.discard.cards
    pc,           \* position in the running handler
    stack,        \* return points of the nested _play_draw_cards calls
    ret,          \* the caller _draw_cards returns to
    sim_number,   \* loop variable of simulate_game / run
    turn_number,  \* loop variable of the turn loop
    log_file,     \* turn records of the current trial
    n_logged,     \* len(all_logs)
    err,          \* "" or the exception that ended the run
    n_iter,       \* iterations of the lost-soul loop since it was entered
    loop_bound,   \* |Hand| + |Deck| when the lost-soul loop was entered
    before,       \* the Deck a zone operation under test was called on
    result,       \* what the zone operation under test returned
    output,       \* self.output of the solitaire turn
    artifact_slot_used_for_turn,
    original_cards,  \* self.deck.original_cards
    game_log      \* the csv file: its header line and its rows

vars == <<prog, cfg, deck, hand, territory, discard, pc, stack, ret,
          sim_number, turn_number, log_file, n_logged, err, n_iter,
          loop_bound, before, result, output, artifact_slot_used_for_turn,
          original_cards, game_log>>

----------------------------------------------------------------------------
(* Generic helpers on sequences.                                           *)

Range(s) == {s[i] : i \in 1..Len(s)}

Min(a, b) == IF a <= b THEN a ELSE b

Max0(n) == IF n < 0 THEN 0 ELSE n

\* list.remove / deque.remove: drop position i
RemoveAt(s, i) == SubSeq(s, 1, i - 1) \o SubSeq(s, i + 1, Len(s))

\* the sequence s reversed
Reverse(s) == [i \in 1..Len(s) |-> s[Len(s) + 1 - i]]

\* n copies of x
Copies(n, x) == [i \in 1..Max0(n) |-> x]

\* self.output before a solitaire turn has set a flag
NoOutput ==
    [cards_in_hand |-> "None", denarius_draw |-> FALSE,
     four_drachman_draw |-> FALSE, whiff_on_heroes |-> FALSE]

----------------------------------------------------------------------------
(* src/models.py: Card and Zone.                                           *)

\* Python's None
None == [id |-> 0, card_type |-> "None", subtype |-> "None"]

\* Card(card_type, subtype): a missing subtype is stored as None, here ""
Card(id, card_type, subtype) ==
    [id |-> id, card_type |-> card_type, subtype |-> subtype]

\* the filter of Zone.count and Zone.remove: every supplied criterion holds
Matches(card, card_type, subtype) ==
    /\ (card_type = "" \/ card.card_type = card_type)
    /\ (subtype = "" \/ (card # None /\ card.subtype = subtype))

\* card.card_type on None raises AttributeError
MatchRaises(card, card_type) == card = None /\ card_type # ""

\* Zone.count(card_type, subtype)
Count(cards, card_type, subtype) ==
    Cardinality({i \in 1..Len(cards) : Matches(cards[i], card_type, subtype)})

\* Zone.count raises when the scan evaluates card.card_type on None
CountRaises(cards, card_type) ==
    \E i \in 1..Len(cards) : MatchRaises(cards[i], card_type)

\* index of the first card Zone.remove matches, 0 when there is none
RemoveIndex(cards, card_type, subtype) ==
    LET hits == {i \in 1..Len(cards) : Matches(cards[i], card_type, subtype)}
    IN  IF hits = {} THEN 0 ELSE CHOOSE i \in hits : \A j \in hits : i <= j

\* index of the first occurrence of card (deque.remove compares by identity)
FirstOccurrence(cards, card) ==
    CHOOSE i \in 1..Len(cards) :
        cards[i] = card /\ \A j \in 1..(i - 1) : cards[j] # card

\* Remove taking the last card that matches instead of the first
RemoveLastMatch(cards, card_type, subtype) ==
    LET hits == {i \in 1..Len(cards) : Matches(cards[i], card_type, subtype)}
    IN  IF hits = {} THEN [card |-> None, cards |-> cards]
        ELSE LET i == CHOOSE i \in hits : \A j \in hits : i >= j
             IN  [card |-> cards[i], cards |-> RemoveAt(cards, i)]

\* Zone.remove(card_type, subtype): the card returned (None when absent)
\* and the cards left
Remove(cards, card_type, subtype) ==
    LET i == RemoveIndex(cards, card_type, subtype)
    IN  IF i = 0 THEN [card |-> None, cards |-> cards]
        ELSE [card  |-> cards[i],
              cards |-> RemoveAt(cards, FirstOccurrence(cards, cards[i]))]

\* Zone.add(card) for a single card: a falsy argument (None) is dropped
Add(cards, card) == IF card = None THEN cards ELSE Append(cards, card)

\* Zone.add(cards) for a list or deque: every element is appended
AddAll(cards, new) == cards \o new

\* SearchMatches requiring every supplied criterion, as Zone.remove does
SearchMatchesAll(card, card_type, subtype) ==
    /\ (card_type = "" \/ card.card_type = card_type)
    /\ (subtype = "" \/ card.subtype = subtype)

\* the filter of Zone.search_for: any supplied criterion holds
SearchMatches(card, card_type, subtype) ==
    \/ (card_type # "" /\ card.card_type = card_type)
    \/ (subtype # "" /\ card # None /\ card.subtype = subtype)

\* Zone.search_for raises ValueError when no criterion is given
SearchForInvalid(card_type, subtype) == card_type = "" /\ subtype = ""

\* SearchFor looking at the whole zone whatever top_n is
SearchForWholeZone(cards, card_type, top_n, subtype) ==
    LET hits == {i \in 1..Len(cards) :
                    SearchMatches(cards[i], card_type, subtype)}
    IN  IF hits = {} THEN [card |-> None, cards |-> cards]
        ELSE LET i == CHOOSE i \in hits : \A j \in hits : i <= j
             IN  [card |-> cards[i], cards |-> RemoveAt(cards, i)]

\* Zone.search_for(card_type, top_n, subtype); top_n = -1 stands for None
SearchFor(cards, card_type, top_n, subtype) ==
    LET n    == IF top_n = -1 THEN Len(cards) ELSE Min(top_n, Len(cards))
        hits == {i \in 1..n : SearchMatches(cards[i], card_type, subtype)}
    IN  IF hits = {} THEN [card |-> None, cards |-> cards]
        ELSE LET i == CHOOSE i \in hits : \A j \in hits : i <= j
             IN  [card  |-> cards[i],
                  cards |-> RemoveAt(cards, FirstOccurrence(cards, cards[i]))]

----------------------------------------------------------------------------
(* src/models.py: Deck.                                                    *)

\* DrawNInvalid letting a draw of no card through
DrawNInvalidBelowZero(number_of_cards_to_draw) == number_of_cards_to_draw < 0

\* Deck.draw_n raises ValueError when the number is not positive
DrawNInvalid(number_of_cards_to_draw) == number_of_cards_to_draw <= 0

\* DrawN taking the cards from the bottom of the Deck
DrawNFromBottom(cards, n) ==
    LET k == Min(n, Len(cards))
    IN  [drawn |-> SubSeq(cards, Len(cards) - k + 1, Len(cards)),
         cards |-> SubSeq(cards, 1, Len(cards) - k)]

\* Deck.draw_n(n), n > 0: the cards drawn, in order, and the cards left
DrawN(cards, n) ==
    LET k == Min(n, Len(cards))
    IN  [drawn |-> SubSeq(cards, 1, k), cards |-> SubSeq(cards, k + 1, Len(cards))]

\* Zone.__init__ line 31: the template captured at construction, <<cards>>
\* for a copy of cards and <<>> for None
OriginalCards(cards) == IF cards # <<>> THEN <<cards>> ELSE <<>>

\* Zone.reset with a template that is left as it was captured
ResetKeepsCards(original, cards) == cards

\* Zone.reset: the cards of the zone after it
Reset(original, cards) == IF original # <<>> THEN original[1] ELSE <<>>

\* random.sample(cards, len(cards)): the orders of cards
Sample(cards) ==
    {[i \in 1..Len(cards) |-> cards[f[i]]] :
        f \in {g \in [1..Len(cards) -> 1..Len(cards)] :
                  \A a, b \in 1..Len(cards) : a # b => g[a] # g[b]}}

\* Deck.bottom_cards(cards, random_order=True): the Decks it can leave
BottomCardsRandom(cards, new) == {cards \o s : s \in Sample(new)}

\* BottomCards putting the cards on top of the Deck
BottomCardsOnTop(cards, new) == new \o cards

\* Deck.bottom_cards(cards), random_order False
BottomCards(cards, new) == cards \o new

\* TopCards without reversed(): the last given card ends up on top
TopCardsLastFirst(cards, new) == Reverse(new) \o cards

\* Deck.top_cards(cards)
TopCards(cards, new) == new \o cards

\* the priority_order tuple of resolve_the_virgin_birth
priority_order == <<"macguffin", "tutor", "peter", "coin", "lost_soul">>

\* the window of Deck.resolve_the_virgin_birth
VirginBirthWindow == 6

\* PriorityPick with the scan of a tier running from the bottom of the
\* window
PriorityPickFromBottom(top_six) ==
    LET hit(p) == {i \in 1..Len(top_six) :
                      top_six[i].card_type = priority_order[p]
                      \/ top_six[i].subtype = priority_order[p]}
        tiers  == {p \in 1..Len(priority_order) : hit(p) # {}}
    IN  IF tiers = {} THEN 0
        ELSE LET p == CHOOSE p \in tiers : \A q \in tiers : p <= q
             IN  CHOOSE i \in hit(p) : \A j \in hit(p) : i >= j

\* position in top_six of the card the priority loops select, 0 when none
PriorityPick(top_six) ==
    LET hit(p) == {i \in 1..Len(top_six) :
                      top_six[i].card_type = priority_order[p]
                      \/ top_six[i].subtype = priority_order[p]}
        tiers  == {p \in 1..Len(priority_order) : hit(p) # {}}
    IN  IF tiers = {} THEN 0
        ELSE LET p == CHOOSE p \in tiers : \A q \in tiers : p <= q
             IN  CHOOSE i \in hit(p) : \A j \in hit(p) : i <= j

\* Deck.resolve_the_virgin_birth(virgin_birth_card): the card returned, the
\* cards of the Deck afterwards, and the exception raised if any
ResolveTheVirginBirth(cards, virgin_birth_card) ==
    LET d       == DrawN(cards, VirginBirthWindow)
        top_six == d.drawn
        i       == PriorityPick(top_six)
        nones   == {k \in 1..Len(top_six) : top_six[k] = None}
    IN  IF nones # {} /\ ~(\E k \in 1..Len(top_six) :
                              /\ top_six[k].card_type = priority_order[1]
                              /\ \A n \in nones : k < n)
        THEN \* card.card_type on None
             [output |-> None, cards |-> d.cards, err |-> "AttributeError"]
        ELSE IF i # 0
        THEN [output |-> top_six[i],
              cards  |-> BottomCards(TopCards(d.cards, RemoveAt(top_six, i)),
                                     <<virgin_birth_card>>),
              err    |-> ""]
        ELSE IF top_six = <<>>
        THEN \* top_six_cards[0] on an empty deque
             [output |-> None, cards |-> d.cards, err |-> "IndexError"]
        ELSE \* output = top_six_cards[0] leaves the card in top_six_cards
             [output |-> top_six[1],
              cards  |-> BottomCards(TopCards(d.cards, top_six),
                                     <<virgin_birth_card>>),
              err    |-> ""]

----------------------------------------------------------------------------
(* src/utils.py and the construction of a Simulation.                      *)

\* determine_lost_souls_required without the range check
LostSoulsOfAnyDeckSize(deck_size) == 7 + (deck_size - 50) \div 7

\* determine_lost_souls_required(deck_size); -1 stands for ValueError
determine_lost_souls_required(deck_size) ==
    IF 50 <= deck_size /\ deck_size <= 56 THEN 7
    ELSE IF 57 <= deck_size /\ deck_size <= 63 THEN 8
    ELSE IF 64 <= deck_size /\ deck_size <= 70 THEN 9
    ELSE IF 71 <= deck_size /\ deck_size <= 77 THEN 10
    ELSE IF 78 <= deck_size /\ deck_size <= 84 THEN 11
    ELSE IF 85 <= deck_size /\ deck_size <= 91 THEN 12
    ELSE IF 92 <= deck_size /\ deck_size <= 98 THEN 13
    ELSE IF 99 <= deck_size /\ deck_size <= 105 THEN 14
    ELSE -1

\* modified_souls_in_deck with cycler souls that are not subtracted
SoulsInDeckLessProsperity(c) ==
    determine_lost_souls_required(c.deck_size) - (IF c.prosperity THEN 1 ELSE 0)

\* self.modified_souls_in_deck
modified_souls_in_deck(c) ==
    determine_lost_souls_required(c.deck_size)
        - (IF c.prosperity THEN 1 ELSE 0) - c.n_cycler_souls

\* the (card_type, subtype) pairs generate_decklist appends, in order
DecklistKinds(c) ==
    LET named ==
               <<<<"macguffin", "">>>>
            \o Copies(c.n_tutors, <<"tutor", "">>)
            \o (IF c.hopper THEN <<<<"lost_soul", "hopper">>>> ELSE <<>>)
            \o (IF c.prosperity THEN <<<<"lost_soul", "prosperity">>>> ELSE <<>>)
            \o Copies(c.n_cycler_souls, <<"lost_soul", "cycler">>)
            \o Copies(modified_souls_in_deck(c), <<"lost_soul", "meek">>)
            \o (IF c.virgin_birth
                THEN <<<<"non_lost_soul", "virgin_birth">>>> ELSE <<>>)
            \o (IF c.four_drachma_coin
                THEN <<<<"non_lost_soul", "peter">>, <<"non_lost_soul", "coin">>>>
                ELSE <<>>)
            \o (IF c.denarius
                THEN <<<<"non_lost_soul", "denarius">>,
                       <<"non_lost_soul", "emperor">>>>
                ELSE <<>>)
    IN  named \o Copies(c.deck_size - Len(named), <<"non_lost_soul", "">>)

\* Simulation.generate_decklist: the template, one Card object per entry
generate_decklist(c) ==
    LET kinds == DecklistKinds(c)
    IN  [i \in 1..Len(kinds) |-> Card(i, kinds[i][1], kinds[i][2])]

----------------------------------------------------------------------------
(* Bounds of the model.                                                    *)

\* largest n_tutors of a configuration
MaxTutors == 1

\* largest n_cycler_souls of a configuration
MaxCyclers == 1

\* n_simulations
MaxSims == 2

\* n_turns
MaxTurns == 2

\* a shuffle brings at most this many named cards to one place of the Deck
ShuffleDepth == 2

\* --deck_sizes_to_try, default
DefaultDeckSize == 50

\* the opening hand
OpeningHandSize == 8

\* the cards drawn at the start of a turn
TurnDrawSize == 3

\* the cards Four-Drachma Coin draws
CoinDrawSize == 4

\* the cards Denarius draws
DenariusDrawSize == 3

\* the smallest deck size that requires eight lost souls
EightSoulsDeckSize == 57

\* the configurations a Simulation is constructed with: going first or
\* not, with or without The Virgin Birth, with or without the other
\* optional cards, a deck of the default size or, with every optional card,
\* of the next tier of determine_lost_souls_required
Configs ==
    {[deck_size |-> DefaultDeckSize, n_cycler_souls |-> MaxCyclers,
      n_tutors |-> MaxTutors, n_simulations |-> MaxSims,
      n_turns |-> MaxTurns, going_first |-> g, hopper |-> f,
      virgin_birth |-> v, prosperity |-> f, four_drachma_coin |-> f,
      denarius |-> f] : g \in BOOLEAN, v \in BOOLEAN, f \in BOOLEAN}
    \cup
    {[deck_size |-> EightSoulsDeckSize, n_cycler_souls |-> MaxCyclers,
      n_tutors |-> MaxTutors, n_simulations |-> MaxSims,
      n_turns |-> MaxTurns, going_first |-> TRUE, hopper |-> TRUE,
      virgin_birth |-> FALSE, prosperity |-> TRUE,
      four_drachma_coin |-> TRUE, denarius |-> TRUE]}

----------------------------------------------------------------------------
(* Zone.shuffle: random.sample draws one of the permutations of the cards. *)
(* The model draws from the permutations that put up to ShuffleDepth named *)
(* cards, in any order, around the end of the opening hand, plain cards    *)
(* above and below them and the other named cards at the bottom, and from  *)
(* the permutations that put every lost soul on top of the Deck.           *)

\* a card of models_v2 (it has a name) or of models
IsV2(card) == "name" \in DOMAIN card

\* the filler cards of a deck: the cards of the template that no rule of
\* the simulations names
IsPlain(card) ==
    IF IsV2(card) THEN card.name = "Filler"
    ELSE card.card_type = "non_lost_soul" /\ card.subtype = ""

IsLostSoul(card) ==
    IF IsV2(card) THEN card.type = "Lost Soul"
    ELSE card.card_type = "lost_soul"

\* what tells two cards apart for the rules of the simulations
Kind(card) ==
    IF IsV2(card) THEN <<card.name>> ELSE <<card.card_type, card.subtype>>

\* the orders in which up to ShuffleDepth of the cards of named can be
\* picked, one order for each choice of kinds (cards of one kind are
\* picked in template order)
Picks(named) ==
    LET n     == Len(named)
        ok(f, k) ==
            /\ \A a, b \in 1..k : a # b => f[a] # f[b]
            /\ \A a \in 1..k : \A j \in 1..(f[a] - 1) :
                    Kind(named[j]) = Kind(named[f[a]])
                        => \E b \in 1..(a - 1) : f[b] = j
    IN  UNION {{f \in [1..k -> 1..n] : ok(f, k)} : k \in 0..Min(ShuffleDepth, n)}

\* the numbers of plain cards above the named cards: the last named card
\* is somewhere from the last card of the opening hand to the last card of
\* the first draw after it
Offsets == (OpeningHandSize - ShuffleDepth)..OpeningHandSize

\* the permutations with the named cards around the end of the opening hand
NamedAtOffset(cards) ==
    LET plain == SelectSeq(cards, IsPlain)
        named == SelectSeq(cards, LAMBDA c : ~IsPlain(c))
    IN  {   SubSeq(plain, 1, at)
         \o [i \in 1..Len(f) |-> named[f[i]]]
         \o SubSeq(plain, at + 1, Len(plain))
         \o SelectSeq(named, LAMBDA c : \A i \in 1..Len(f) : named[f[i]] # c) :
            f \in Picks(named), at \in {a \in Offsets : a <= Len(plain)}}

\* the permutations with the lost souls together: no plain card or all
\* but one card of the opening hand, one lost soul, the other lost souls,
\* the tutors or none of them, the other plain cards, the other named cards
SoulsOnTop(cards) ==
    LET souls  == SelectSeq(cards, IsLostSoul)
        plain  == SelectSeq(cards, IsPlain)
        other  == SelectSeq(cards, LAMBDA c : ~IsLostSoul(c) /\ ~IsPlain(c))
        tutors == SelectSeq(other, LAMBDA c : Kind(c) = <<"tutor", "">>)
    IN  {   SubSeq(plain, 1, at)
         \o <<souls[i]>> \o RemoveAt(souls, i) \o next
         \o SubSeq(plain, at + 1, Len(plain))
         \o SelectSeq(other, LAMBDA c : \A k \in 1..Len(next) : next[k] # c) :
            i \in {j \in 1..Len(souls) :
                      \A k \in 1..(j - 1) : Kind(souls[k]) # Kind(souls[j])},
            at \in {0, OpeningHandSize - 1},
            next \in {<<>>, tutors}}

\* the permutations of cards the model lets Zone.shuffle produce
Shuffles(cards) == NamedAtOffset(cards) \cup SoulsOnTop(cards)

\* the deck of the scenario: one macguffin, one tutor, two lost souls and
\* 46 plain cards, as Card objects
ScenarioTemplate ==
    LET kinds ==    <<<<"macguffin", "">>, <<"tutor", "">>>>
                 \o Copies(2, <<"lost_soul", "">>)
                 \o Copies(46, <<"non_lost_soul", "">>)
    IN  [i \in 1..Len(kinds) |-> Card(i, kinds[i][1], kinds[i][2])]

\* Shuffles of the templates of the Simulation objects, tabulated
ResetDecks ==
    [cards \in {generate_decklist(c) : c \in Configs} \cup {ScenarioTemplate}
        |-> Shuffles(cards)]

----------------------------------------------------------------------------
(* src/simulation.py: Simulation._draw_cards.                              *)

\* the zones of a simulation as one value
Zones(d, h, t, x) == [deck |-> d, hand |-> h, territory |-> t, discard |-> x]

\* ResolveStars without the replacement: the drawn cards as they are
NoResolveStars(drawn_cards, cards, i) ==
    [drawn |-> drawn_cards, cards |-> cards, err |-> ""]

\* lines 177-182: the loop over drawn_cards from position i on
RECURSIVE ResolveStars(_, _, _)
ResolveStars(drawn_cards, cards, i) ==
    IF i > Len(drawn_cards)
    THEN [drawn |-> drawn_cards, cards |-> cards, err |-> ""]
    ELSE IF drawn_cards[i] = None
    THEN [drawn |-> drawn_cards, cards |-> cards, err |-> "AttributeError"]
    ELSE IF drawn_cards[i].subtype = "virgin_birth"
    THEN LET r == ResolveTheVirginBirth(cards, drawn_cards[i])
         IN  IF r.err # ""
             THEN [drawn |-> drawn_cards, cards |-> r.cards, err |-> r.err]
             ELSE ResolveStars([drawn_cards EXCEPT ![i] = r.output],
                               r.cards, i + 1)
    ELSE ResolveStars(drawn_cards, cards, i + 1)

\* lines 172-183: the draw, the virgin birth and hand.add
DrawBatch(z, n_cards, resolve_stars, virgin_birth) ==
    LET d == DrawN(z.deck, n_cards)
    IN  IF ~resolve_stars
        THEN [z |-> [z EXCEPT !.deck = d.cards], err |-> ""]
        ELSE LET r == IF virgin_birth
                      THEN ResolveStars(d.drawn, d.cards, 1)
                      ELSE [drawn |-> d.drawn, cards |-> d.cards, err |-> ""]
             IN  IF r.err # ""
                 THEN [z |-> [z EXCEPT !.deck = r.cards], err |-> r.err]
                 ELSE [z |-> [z EXCEPT !.deck = r.cards,
                                       !.hand = AddAll(z.hand, r.drawn)],
                       err |-> ""]

\* lines 194-199: the cycler lost soul
Cycler(z) ==
    IF Count(z.hand, "macguffin", "") = 0 /\ Count(z.hand, "tutor", "") = 0
    THEN LET r  == Remove(z.hand, "non_lost_soul", "")
             d  == DrawN(BottomCards(z.deck, <<r.card>>), 1)
         IN  [z EXCEPT !.deck = d.cards, !.hand = AddAll(r.cards, d.drawn)]
    ELSE z

\* Prosperity without the look at the Hand for a macguffin or a tutor
ProsperityUnconditional(z) ==
    LET r == Remove(z.hand, "non_lost_soul", "")
        d == DrawN(z.deck, 2)
    IN  [z EXCEPT !.discard = Add(z.discard, r.card),
                  !.deck = d.cards, !.hand = AddAll(r.cards, d.drawn)]

\* lines 200-205: the prosperity lost soul
Prosperity(z) ==
    IF Count(z.hand, "macguffin", "") = 0 /\ Count(z.hand, "tutor", "") = 0
    THEN LET r == Remove(z.hand, "non_lost_soul", "")
             d == DrawN(z.deck, 2)
         IN  [z EXCEPT !.discard = Add(z.discard, r.card),
                       !.deck = d.cards, !.hand = AddAll(r.cards, d.drawn)]
    ELSE z

\* LostSoulIteration with a lost soul that stays in the Hand when it is put
\* in play
LostSoulIterationKeepsSoul(z) ==
    LET r  == Remove(z.hand, "lost_soul", "")
        d  == IF Len(z.deck) # 0 THEN DrawN(z.deck, 1)
              ELSE [drawn |-> <<>>, cards |-> z.deck]
    IN  [z   |-> [z EXCEPT !.hand = AddAll(z.hand, d.drawn),
                           !.territory = Add(z.territory, r.card),
                           !.deck = d.cards],
         err |-> ""]

\* LostSoulIteration with a lost soul that is put in the Discard
LostSoulIterationToDiscard(z) ==
    LET r  == Remove(z.hand, "lost_soul", "")
        d  == IF Len(z.deck) # 0 THEN DrawN(z.deck, 1)
              ELSE [drawn |-> <<>>, cards |-> z.deck]
    IN  [z   |-> [z EXCEPT !.hand = AddAll(r.cards, d.drawn),
                           !.discard = Add(z.discard, r.card),
                           !.deck = d.cards],
         err |-> ""]

\* lines 187-205: one iteration of the while loop (the Hand holds a lost
\* soul)
LostSoulIteration(z) ==
    LET r  == Remove(z.hand, "lost_soul", "")
        d  == IF Len(z.deck) # 0 THEN DrawN(z.deck, 1)
              ELSE [drawn |-> <<>>, cards |-> z.deck]
        z1 == [z EXCEPT !.hand = AddAll(r.cards, d.drawn),
                        !.territory = Add(z.territory, r.card),
                        !.deck = d.cards]
    IN  IF r.card.subtype \in {"cycler", "prosperity"}
              /\ CountRaises(z1.hand, "macguffin")
        THEN [z |-> z1, err |-> "AttributeError"]
        ELSE IF r.card.subtype = "cycler"
        THEN [z |-> Cycler(z1), err |-> ""]
        ELSE IF r.card.subtype = "prosperity"
        THEN [z |-> Prosperity(z1), err |-> ""]
        ELSE [z |-> z1, err |-> ""]

----------------------------------------------------------------------------
(* src/simulation.py: the plays of a turn.                                 *)

\* lines 113-118: play peter, then coin, from the Hand
PlayPeterAndCoin(z) ==
    LET p  == Remove(z.hand, "", "peter")
        z1 == IF Count(z.hand, "", "peter") > 0
              THEN [z EXCEPT !.hand = p.cards,
                             !.territory = Add(z.territory, p.card)]
              ELSE z
        c  == Remove(z1.hand, "", "coin")
    IN  IF Count(z1.hand, "", "coin") > 0
        THEN [z1 EXCEPT !.hand = c.cards,
                        !.territory = Add(z1.territory, c.card)]
        ELSE z1

\* lines 120-123: coin and peter are both in play
CoinReady(z) ==
    Count(z.territory, "", "coin") > 0 /\ Count(z.territory, "", "peter") > 0

\* line 124: discard the coin
DiscardCoin(z) ==
    LET c == Remove(z.territory, "", "coin")
    IN  [z EXCEPT !.territory = c.cards, !.discard = Add(z.discard, c.card)]

\* lines 132-139: play denarius, fetch an emperor, play the emperor
PlayDenariusAndEmperor(z) ==
    LET dn == Remove(z.hand, "", "denarius")
        z1 == IF Count(z.hand, "", "denarius") > 0
              THEN LET z0 == [z EXCEPT !.hand = dn.cards,
                                       !.territory = Add(z.territory, dn.card)]
                       e  == SearchFor(z0.deck, "", -1, "emperor")
                   IN  IF Count(z0.deck, "", "emperor") > 0
                       THEN [z0 EXCEPT !.deck = e.cards,
                                       !.hand = Add(z0.hand, e.card)]
                       ELSE z0
              ELSE z
        em == Remove(z1.hand, "", "emperor")
    IN  IF Count(z1.hand, "", "emperor") > 0
        THEN [z1 EXCEPT !.hand = em.cards,
                        !.territory = Add(z1.territory, em.card)]
        ELSE z1

\* lines 142-145: exactly one denarius and an emperor are in play
DenariusReady(z) ==
    Count(z.territory, "", "denarius") = 1
        /\ Count(z.territory, "", "emperor") > 0

\* line 147: discard the denarius
DiscardDenarius(z) ==
    LET c == Remove(z.territory, "", "denarius")
    IN  [z EXCEPT !.territory = c.cards, !.discard = Add(z.discard, c.card)]

\* Simulation._play_macguffin; deck.count("macguffin") raises on a None
\* in the Deck
PlayMacguffinRaises(z) ==
    \/ CountRaises(z.hand, "macguffin")
    \/ /\ Count(z.hand, "macguffin", "") = 0
       /\ Count(z.hand, "tutor", "") > 0
       /\ CountRaises(z.deck, "macguffin")

\* lines 161-168: the cards _play_macguffin moves
PlayMacguffinCards(z) ==
    IF Count(z.hand, "macguffin", "") > 0
    THEN LET m == Remove(z.hand, "macguffin", "")
         IN  [z EXCEPT !.hand = m.cards,
                       !.territory = Add(z.territory, m.card)]
    ELSE IF Count(z.hand, "tutor", "") > 0 /\ Count(z.deck, "macguffin", "") > 0
    THEN LET t == Remove(z.hand, "tutor", "")
             m == SearchFor(z.deck, "macguffin", -1, "")
         IN  [z EXCEPT !.hand = t.cards, !.deck = m.cards,
                       !.territory = Add(Add(z.territory, t.card), m.card)]
    ELSE z

\* lines 223-241: the turn log
TurnLog(c, z) ==
    [n_cards_drawn             |-> c.deck_size - Len(z.deck),
     going_first               |-> c.going_first,
     macguffin_in_territory    |-> Count(z.territory, "macguffin", "") # 0,
     n_tutors_in_starting_deck |-> c.n_tutors,
     n_cycler_souls            |-> c.n_cycler_souls,
     has_virgin_birth          |-> c.virgin_birth,
     has_hopper                |-> c.hopper,
     has_prosperity            |-> c.prosperity,
     has_four_drachma_coin     |-> c.four_drachma_coin,
     has_denarius              |-> c.denarius]

\* lines 223-241: the keys of the turn log, in the order of the dict
TurnLogKeys ==
    <<"n_cards_drawn", "going_first", "macguffin_in_territory",
      "n_tutors_in_starting_deck", "n_cycler_souls", "has_virgin_birth",
      "has_hopper", "has_prosperity", "has_four_drachma_coin", "has_denarius">>

\* create_empty_log_file lines 246-264: the fieldnames of the header
headers ==
    <<"n_cards_drawn", "going_first", "macguffin_in_territory",
      "n_tutors_in_starting_deck", "n_cycler_souls", "has_virgin_birth",
      "has_hopper", "has_prosperity", "has_four_drachma_coin", "has_denarius">>

\* no csv file
NoLogFile == [header |-> <<>>, rows |-> <<>>]

\* create_empty_log_file: the csv file holds the header line and no row
EmptyLogFile(fieldnames) == [header |-> fieldnames, rows |-> <<>>]

\* AppendLog writing one row for every trial, whatever was buffered
AppendLogOfTrials(file, n, fieldnames) ==
    [file EXCEPT !.rows = @ \o Copies(MaxSims, fieldnames)]

\* append_log_to_file: one row for each of the n records of log_data, every
\* row under the keys of the first record (a row is modelled by its
\* fieldnames)
AppendLog(file, n, fieldnames) ==
    [file EXCEPT !.rows = @ \o Copies(n, fieldnames)]

----------------------------------------------------------------------------
(* The Simulation as a state machine.                                      *)

Z == Zones(deck, hand, territory, discard)

SetZones(z) ==
    /\ deck' = z.deck
    /\ hand' = z.hand
    /\ territory' = z.territory
    /\ discard' = z.discard

\* an exception escapes: the run ends where it is
Crash(z, e) ==
    /\ SetZones(z)
    /\ err' = e
    /\ pc' = "crashed"
    /\ UNCHANGED <<stack, ret, n_iter, loop_bound>>

\* _draw_cards reaches its while loop, called from caller
EnterLoop(r, caller) ==
    IF r.err # "" THEN Crash(r.z, r.err)
    ELSE /\ SetZones(r.z)
         /\ pc' = "loop"
         /\ ret' = caller
         /\ n_iter' = 0
         /\ loop_bound' = Len(r.z.hand) + Len(r.z.deck)
         /\ UNCHANGED <<stack, err>>

\* where control goes when a _play_draw_cards call returns: to
\* _play_macguffin (called from _take_a_turn), to the denarius part of the
\* enclosing _play_draw_cards (called from _play_drachma_coin_cards), or out
\* of the enclosing _play_draw_cards (called from _play_denarius_cards)
RECURSIVE Unwind(_)
Unwind(st) ==
    IF Head(st) = "take_a_turn" THEN [pc |-> "macguffin", stack |-> Tail(st)]
    ELSE IF Head(st) = "coin" THEN [pc |-> "play_denarius", stack |-> Tail(st)]
    ELSE Unwind(Tail(st))

InitSimulation ==
    /\ prog = "Simulation"
    /\ cfg \in Configs
    /\ deck = generate_decklist(cfg)
    /\ hand = <<>>
    /\ territory = <<>>
    /\ discard = <<>>
    /\ pc = "reset"
    /\ stack = <<>>
    /\ ret = ""
    /\ sim_number = 0
    /\ turn_number = 0
    /\ log_file = <<>>
    /\ n_logged = 0
    /\ err = ""
    /\ n_iter = 0
    /\ loop_bound = 0
    /\ before = <<>>
    /\ result = None
    /\ output = NoOutput
    /\ artifact_slot_used_for_turn = FALSE
    /\ original_cards = OriginalCards(deck)
    /\ game_log = EmptyLogFile(headers)

\* Simulation.reset_simulation_state (the log_file of the trial before is
\* never read again: line 293 replaces it; no call is in progress)
ResetSimulationState ==
    /\ prog = "Simulation"
    /\ pc = "reset"
    /\ deck' \in ResetDecks[Reset(original_cards, deck)]
    /\ territory' = Reset(OriginalCards(<<>>), territory)
    /\ discard' = Reset(OriginalCards(<<>>), discard)
    /\ hand' = Reset(OriginalCards(<<>>), hand)
    /\ pc' = "opening"
    /\ log_file' = <<>>
    /\ turn_number' = 0
    /\ n_iter' = 0
    /\ loop_bound' = 0
    /\ stack' = <<>>
    /\ ret' = ""
    /\ UNCHANGED <<output, artifact_slot_used_for_turn>>
    /\ UNCHANGED <<original_cards, game_log>>
    /\ UNCHANGED <<prog, cfg, sim_number, n_logged, err, before, result>>

\* simulate_game line 290: the opening draw, up to the while loop
OpeningDraw ==
    /\ prog = "Simulation"
    /\ pc = "opening"
    /\ EnterLoop(DrawBatch(Z, OpeningHandSize, TRUE, cfg.virgin_birth), "open")
    /\ UNCHANGED <<output, artifact_slot_used_for_turn>>
    /\ UNCHANGED <<original_cards, game_log>>
    /\ UNCHANGED <<prog, cfg, sim_number, turn_number, log_file, n_logged,
                   before, result>>

\* _draw_cards lines 186-205: one iteration of the while loop
LostSoulStep ==
    /\ prog = "Simulation"
    /\ pc = "loop"
    /\ CountRaises(hand, "lost_soul") \/ Count(hand, "lost_soul", "") > 0
    /\ IF CountRaises(hand, "lost_soul")
       THEN Crash(Z, "AttributeError")
       ELSE LET r == LostSoulIteration(Z)
            IN  IF r.err # "" THEN Crash(r.z, r.err)
                ELSE /\ SetZones(r.z)
                     /\ n_iter' = n_iter + 1
                     /\ UNCHANGED <<pc, stack, ret, err, loop_bound>>
    /\ UNCHANGED <<output, artifact_slot_used_for_turn>>
    /\ UNCHANGED <<original_cards, game_log>>
    /\ UNCHANGED <<prog, cfg, sim_number, turn_number, log_file, n_logged,
                   before, result>>

\* DrawCardsReturn with a loop that is left whatever the Hand holds
DrawCardsReturnAtOnce ==
    /\ prog = "Simulation"
    /\ pc = "loop"
    /\ IF ret = "open"
       THEN pc' = "turn" /\ turn_number' = 1 /\ stack' = stack
       ELSE pc' = "play_coin" /\ turn_number' = turn_number
            /\ stack' = <<ret>> \o stack
    /\ UNCHANGED <<original_cards, game_log>>
    /\ UNCHANGED <<prog, cfg, deck, hand, territory, discard, ret, sim_number,
                   log_file, n_logged, err, n_iter, loop_bound, before, result,
                   output, artifact_slot_used_for_turn>>

\* _draw_cards line 186: the Hand holds no lost soul, _draw_cards returns
DrawCardsReturn ==
    /\ prog = "Simulation"
    /\ pc = "loop"
    /\ ~CountRaises(hand, "lost_soul")
    /\ Count(hand, "lost_soul", "") = 0
    /\ IF ret = "open"
       THEN pc' = "turn" /\ turn_number' = 1 /\ stack' = stack
       ELSE pc' = "play_coin" /\ turn_number' = turn_number
            /\ stack' = <<ret>> \o stack
    /\ UNCHANGED <<output, artifact_slot_used_for_turn>>
    /\ UNCHANGED <<original_cards, game_log>>
    /\ UNCHANGED <<prog, cfg, deck, hand, territory, discard, ret, sim_number,
                   log_file, n_logged, err, n_iter, loop_bound, before, result>>

\* TakeATurn drawing on every turn, the first of a trial on the play too
TakeATurnAlwaysDraws ==
    /\ prog = "Simulation"
    /\ pc = "turn"
    /\ EnterLoop(DrawBatch(Z, TurnDrawSize, TRUE, cfg.virgin_birth),
                 "take_a_turn")
    /\ UNCHANGED <<output, artifact_slot_used_for_turn>>
    /\ UNCHANGED <<original_cards, game_log>>
    /\ UNCHANGED <<prog, cfg, sim_number, turn_number, log_file, n_logged,
                   before, result>>

\* _take_a_turn lines 214-218: the draw of the turn
TakeATurn ==
    /\ prog = "Simulation"
    /\ pc = "turn"
    /\ IF ~(cfg.going_first /\ turn_number = 1)
       THEN EnterLoop(DrawBatch(Z, TurnDrawSize, TRUE, cfg.virgin_birth),
                      "take_a_turn")
       ELSE /\ pc' = "play_coin"
            /\ stack' = <<"take_a_turn">> \o stack
            /\ UNCHANGED <<deck, hand, territory, discard, ret, err, n_iter,
                           loop_bound>>
    /\ UNCHANGED <<output, artifact_slot_used_for_turn>>
    /\ UNCHANGED <<original_cards, game_log>>
    /\ UNCHANGED <<prog, cfg, sim_number, turn_number, log_file, n_logged,
                   before, result>>

\* _play_draw_cards lines 154-155 and _play_drachma_coin_cards
PlayDrachmaCoinCards ==
    /\ prog = "Simulation"
    /\ pc = "play_coin"
    /\ LET z == IF cfg.four_drachma_coin THEN PlayPeterAndCoin(Z) ELSE Z
       IN  IF cfg.four_drachma_coin /\ CoinReady(z)
           THEN EnterLoop(DrawBatch(DiscardCoin(z), CoinDrawSize, FALSE,
                                    cfg.virgin_birth), "coin")
           ELSE /\ SetZones(z)
                /\ pc' = "play_denarius"
                /\ UNCHANGED <<stack, ret, err, n_iter, loop_bound>>
    /\ UNCHANGED <<output, artifact_slot_used_for_turn>>
    /\ UNCHANGED <<original_cards, game_log>>
    /\ UNCHANGED <<prog, cfg, sim_number, turn_number, log_file, n_logged,
                   before, result>>

\* _play_draw_cards lines 156-157 and _play_denarius_cards
PlayDenariusCards ==
    /\ prog = "Simulation"
    /\ pc = "play_denarius"
    /\ LET z == IF cfg.denarius THEN PlayDenariusAndEmperor(Z) ELSE Z
       IN  IF cfg.denarius /\ DenariusReady(z)
           THEN EnterLoop(DrawBatch(DiscardDenarius(z), DenariusDrawSize,
                                    FALSE, cfg.virgin_birth), "denarius")
           ELSE /\ SetZones(z)
                /\ pc' = Unwind(stack).pc
                /\ stack' = Unwind(stack).stack
                /\ UNCHANGED <<ret, err, n_iter, loop_bound>>
    /\ UNCHANGED <<output, artifact_slot_used_for_turn>>
    /\ UNCHANGED <<original_cards, game_log>>
    /\ UNCHANGED <<prog, cfg, sim_number, turn_number, log_file, n_logged,
                   before, result>>

\* _take_a_turn lines 220-241 and the loops of simulate_game around it
PlayMacguffin ==
    /\ prog = "Simulation"
    /\ pc = "macguffin"
    /\ IF PlayMacguffinRaises(Z)
       THEN /\ Crash(Z, "AttributeError")
            /\ UNCHANGED <<sim_number, turn_number, log_file, n_logged>>
       ELSE LET z == PlayMacguffinCards(Z)
            IN  /\ SetZones(z)
                /\ UNCHANGED <<stack, ret, err, n_iter, loop_bound>>
                /\ IF turn_number < cfg.n_turns
                   THEN /\ log_file' = Append(log_file, TurnLog(cfg, z))
                        /\ turn_number' = turn_number + 1
                        /\ pc' = "turn"
                        /\ UNCHANGED <<sim_number, n_logged>>
                   ELSE /\ log_file' = Append(log_file, TurnLog(cfg, z))
                        /\ n_logged' = n_logged + Len(log_file) + 1
                        /\ sim_number' = sim_number + 1
                        /\ turn_number' = turn_number
                        /\ pc' = IF sim_number + 1 < cfg.n_simulations
                                 THEN "reset" ELSE "write"
    /\ UNCHANGED <<output, artifact_slot_used_for_turn>>
    /\ UNCHANGED <<original_cards, game_log>>
    /\ UNCHANGED <<prog, cfg, before, result>>

\* simulate_game line 304: the bulk write
AppendLogToFile ==
    /\ prog = "Simulation"
    /\ pc = "write"
    /\ pc' = "done"
    /\ game_log' = AppendLog(game_log, n_logged, TurnLogKeys)
    /\ UNCHANGED <<output, artifact_slot_used_for_turn, original_cards>>
    /\ UNCHANGED <<prog, cfg, deck, hand, territory, discard, stack, ret,
                   sim_number, turn_number, log_file, n_logged, err, n_iter,
                   loop_bound, before, result>>

NextSimulation ==
    \/ ResetSimulationState
    \/ OpeningDraw
    \/ LostSoulStep
    \/ DrawCardsReturn
    \/ TakeATurn
    \/ PlayDrachmaCoinCards
    \/ PlayDenariusCards
    \/ PlayMacguffin
    \/ AppendLogToFile

SpecSimulation == InitSimulation /\ [][NextSimulation]_vars

----------------------------------------------------------------------------
(* src/constants.py: the card lists the second simulation imports.         *)

\* the lost souls that underdeck a card and draw one
CYCLER_SOULS == {"Lost Soul (cycler)"}

\* the lost souls that fetch an evil character
DARKNESS == {"Lost Soul (darkness)"}

\* the lost souls that reveal the top six cards of the Deck
LAWLESS == {"Lost Soul (lawless)"}

GOOD_BRIGADES ==
    {"Blue", "Clay", "Good Gold", "Green", "Purple", "Red", "Silver", "Teal",
     "White"}

EVIL_BRIGADES ==
    {"Black", "Brown", "Crimson", "Evil Gold", "Gray", "Orange", "Pale Green"}

----------------------------------------------------------------------------
(* src/models_v2.py: Card and Zone.  A criterion that is not given is "".  *)

\* Card(name, type, brigade, alignment, tags=...)
Card_v2(id, name, type, brigade, alignment, tags) ==
    [id |-> id, name |-> name, type |-> type, brigade |-> brigade,
     alignment |-> alignment, tags |-> tags]

\* the zone holds None: reading an attribute of it raises AttributeError
HasNone(cards) == \E i \in 1..Len(cards) : cards[i] = None

\* Zone.add(cards) for a single card: appended whatever it is, None too
Add_v2(cards, card) == Append(cards, card)

\* Zone.add(cards) for a list
Extend_v2(cards, new) == cards \o new

\* Zone.count(name, type), on a zone without None
Count_v2(cards, name, type) ==
    Cardinality({i \in 1..Len(cards) :
                    /\ (name = "" \/ cards[i].name = name)
                    /\ (type = "" \/ cards[i].type = type)})

\* Zone.count raises ValueError when neither name nor type is given
CountInvalid_v2(name, type) == name = "" /\ type = ""

\* Zone.remove raises ValueError when neither or both are given
RemoveInvalid_v2(name, type) ==
    (name = "" /\ type = "") \/ (name # "" /\ type # "")

\* Zone.count_actual_brigades(brigades)
RECURSIVE count_actual_brigades(_)
count_actual_brigades(brigades) ==
    IF brigades = <<>> THEN 0
    ELSE (IF Head(brigades) = "Good Multi" THEN Cardinality(GOOD_BRIGADES)
          ELSE IF Head(brigades) = "Evil Multi" THEN Cardinality(EVIL_BRIGADES)
          ELSE 1)
         + count_actual_brigades(Tail(brigades))

\* `for card in cards: if <test>: ...`, hits being the positions of the
\* cards the test holds of: the position of the first of them, 0 when there
\* is none, -1 when the scan reads an attribute of None before it finds one
Scan(cards, hits) ==
    LET stop == {i \in 1..Len(cards) : cards[i] = None \/ i \in hits}
    IN  IF stop = {} THEN 0
        ELSE LET i == CHOOSE i \in stop : \A j \in stop : i <= j
             IN  IF cards[i] = None THEN -1 ELSE i

\* what a scan that removes the card it finds returns: the card (None when
\* absent), the cards left and the exception raised
Found(cards, i) ==
    IF i = -1 THEN [card |-> None, cards |-> cards, err |-> "AttributeError"]
    ELSE IF i = 0 THEN [card |-> None, cards |-> cards, err |-> ""]
    ELSE [card |-> cards[i], cards |-> RemoveAt(cards, i), err |-> ""]

\* Zone._search_for_brigades(brigades): -1 when it raises, else 1 or 0
SearchForBrigades(cards, brigades) ==
    LET i == Scan(cards, {k \in 1..Len(cards) :
                     /\ cards[k] # None
                     /\ cards[k].type \in {"Hero", "Evil Character"}
                     /\ \E b \in brigades : b \in Range(cards[k].brigade)})
    IN  IF i = -1 THEN -1 ELSE IF i = 0 THEN 0 ELSE 1

\* MaxBrigadesCard taking the first card that is not a lost soul
FirstNonLostSoulCard(cards) ==
    LET non == {i \in 1..Len(cards) : cards[i].type # "Lost Soul"}
    IN  IF non = {} THEN 0 ELSE CHOOSE i \in non : \A j \in non : i <= j

\* the first card of cards with the most brigades among the cards that are
\* not lost souls, 0 when every card is a lost soul (max, lines 97-101)
MaxBrigadesCard(cards) ==
    LET non == {i \in 1..Len(cards) : cards[i].type # "Lost Soul"}
        n(i) == count_actual_brigades(cards[i].brigade)
    IN  IF non = {} THEN 0
        ELSE CHOOSE i \in non :
                 \A j \in non : n(j) < n(i) \/ (n(j) = n(i) /\ i <= j)

\* Zone.remove(name, type), exactly one of the two given
Remove_v2(cards, name, type) ==
    IF type = "MostBrigades" /\ HasNone(cards)
    THEN Found(cards, -1)
    ELSE IF type = "MostBrigades" /\ MaxBrigadesCard(cards) # 0
    THEN Found(cards, MaxBrigadesCard(cards))
    ELSE Found(cards, Scan(cards, {k \in 1..Len(cards) :
                   /\ cards[k] # None
                   /\ \/ (type = "RandomNonLostSoul" /\ cards[k].type # "Lost Soul")
                      \/ (name # "" /\ cards[k].name = name)
                      \/ (type # "" /\ cards[k].type = type)}))

\* SearchForInvalid_v2 letting every query through
SearchForNeverInvalid_v2(name, type, tags) == FALSE

\* lines 139-140: Zone.search_for raises ValueError when no criterion is
\* given
SearchForInvalid_v2(name, type, tags) == name = "" /\ type = "" /\ tags = ""

\* Zone.search_for(name=, type=, tags=, top_n=); top_n = -1 stands for None
SearchFor_v2(cards, name, type, tags, top_n) ==
    LET n == IF top_n = -1 THEN Len(cards) ELSE Min(top_n, Len(cards))
        i == Scan(SubSeq(cards, 1, n), {k \in 1..n :
                     /\ cards[k] # None
                     /\ \/ (name # "" /\ cards[k].name = name)
                        \/ (type # "" /\ cards[k].type = type)
                        \/ (tags # "" /\ tags \in cards[k].tags)})
    IN  Found(cards, i)

----------------------------------------------------------------------------
(* src/models_v2.py: Deck.                                                 *)

\* Deck.draw_n(n), n > 0
DrawN_v2(cards, n) ==
    LET k == Min(n, Len(cards))
    IN  [drawn |-> SubSeq(cards, 1, k), cards |-> SubSeq(cards, k + 1, Len(cards))]

\* Deck.bottom_cards(cards) for a list, random_order False
BottomCards_v2(cards, new) == cards \o new

\* Deck.top_cards(cards) for a list
TopCards_v2(cards, new) == new \o cards

\* the first card of top_six with the fewest brigades among the cards that
\* are not lost souls, 0 when every card is a lost soul (min, lines 247-250)
MinBrigadesCard(top_six) ==
    LET non == {i \in 1..Len(top_six) : top_six[i].type # "Lost Soul"}
        n(i) == count_actual_brigades(top_six[i].brigade)
    IN  IF non = {} THEN 0
        ELSE CHOOSE i \in non :
                 \A j \in non : n(j) > n(i) \/ (n(j) = n(i) /\ i <= j)

\* Deck.resolve_the_virgin_birth(virgin_birth_card, cycler_logic): the
\* outcomes it can have (random.choice picks any of the revealed lost souls)
ResolveTheVirginBirth_v2(cards, virgin_birth_card, cycler_logic) ==
    LET d       == DrawN_v2(cards, VirginBirthWindow)
        top_six == d.drawn
        take(i) == [output |-> top_six[i],
                    cards  |-> Append(TopCards_v2(d.cards, RemoveAt(top_six, i)),
                                      virgin_birth_card),
                    err    |-> ""]
        raise(e) == {[output |-> None, cards |-> d.cards, err |-> e]}
    IN  IF cycler_logic = "optimized"
        THEN IF HasNone(top_six) THEN raise("AttributeError")
             ELSE IF MinBrigadesCard(top_six) # 0
             THEN {take(MinBrigadesCard(top_six))}
             ELSE IF top_six = <<>> THEN raise("IndexError")
             ELSE {take(i) : i \in 1..Len(top_six)}
        ELSE IF top_six = <<>> THEN raise("IndexError")
        ELSE {take(1)}

----------------------------------------------------------------------------
(* src/spectrograph_simulation.py: the deck of a SpectrographSimulation.   *)

VirginBirth == "Virgin Birth"

Denarius == "Denarius (I/J+)"

FourDrachmaCoin == "Four-Drachma Coin (GoC)"

SimonPeter == "Simon Peter / Peter, the Rock (GoC)"

Delivered == "Delivered"

Prosperity_v2 == "Lost Soul \"Prosperity\" [Deuteronomy 30:15]"

Crowds == "Lost Soul \"Crowds\" [Luke 5:15] [2016 - Local]"

\* the brigades a character must have for Delivered to be played
DeliveredBrigades == {"Teal", "Green", "Evil Gold", "Pale Green"}

\* a deck file is a list of entries (quantity, name); entry(...) is the
\* entry with the metadata Decklist._map_card_metadata attaches to it
Entry(quantity, name, type, brigade, alignment, tags) ==
    [quantity |-> quantity, name |-> name, type |-> type, brigade |-> brigade,
     alignment |-> alignment, tags |-> tags]

\* the named cards of the deck file the model loads: the cards the rules
\* of the simulation name, nine lost souls, an emperor, an evil character
\* and a hero of every good brigade
NamedEntries ==
    <<Entry(1, VirginBirth, "GE", <<"White">>, "Good", {}),
      Entry(1, Denarius, "Artifact", <<"">>, "Neutral", {}),
      Entry(1, "Emperor Nero", "Evil Character", <<"Black">>, "Evil",
            {"is_emperor"}),
      Entry(1, FourDrachmaCoin, "Artifact", <<"">>, "Neutral", {}),
      Entry(1, SimonPeter, "Hero", <<"Teal">>, "Good", {}),
      Entry(1, Delivered, "GE",
            <<"Green", "Teal", "Evil Gold", "Pale Green">>, "Good", {}),
      Entry(1, "Lost Soul (cycler)", "Lost Soul", <<"">>, "Neutral", {}),
      Entry(1, Prosperity_v2, "Lost Soul", <<"">>, "Neutral", {}),
      Entry(1, "Lost Soul (darkness)", "Lost Soul", <<"">>, "Neutral", {}),
      Entry(1, "Lost Soul (lawless)", "Lost Soul", <<"">>, "Neutral", {}),
      Entry(1, Crowds, "Lost Soul", <<"">>, "Neutral", {}),
      Entry(4, "Lost Soul", "Lost Soul", <<"">>, "Neutral", {}),
      Entry(1, "Evil Character", "Evil Character", <<"Crimson">>, "Evil", {}),
      Entry(1, "Hero", "Hero", <<"Good Multi">>, "Good", {})>>

\* the number of cards of the deck file: the deck size that requires nine
\* lost souls
SpectrographDeckSize == 64

\* Decklist.mapped_main_deck_list: the named cards and filler cards up to
\* SpectrographDeckSize
RECURSIVE Quantity(_)
Quantity(entries) ==
    IF entries = <<>> THEN 0
    ELSE Head(entries).quantity + Quantity(Tail(entries))

mapped_main_deck_list ==
    Append(NamedEntries,
           Entry(SpectrographDeckSize - Quantity(NamedEntries), "Filler", "GE",
                 <<"Blue">>, "Good", {}))

\* Deck.load_decklist(decklist): quantity cards for every entry, in order
RECURSIVE load_decklist(_, _)
load_decklist(entries, first_id) ==
    IF entries = <<>> THEN <<>>
    ELSE LET e == Head(entries)
         IN  [i \in 1..e.quantity |->
                 Card_v2(first_id + i - 1, e.name, e.type, e.brigade,
                         e.alignment, e.tags)]
             \o load_decklist(Tail(entries), first_id + e.quantity)

\* _set_deck_flags: a flag is set when the deck file lists the card
DeckFlag(name) ==
    \E i \in 1..Len(mapped_main_deck_list) :
        mapped_main_deck_list[i].name = name

\* the SpectrographSimulation objects of the model, after
\* initialize_decklist: the constructor arguments and the deck flags (a run
\* with only_matthew_results has one trial, the other runs have MaxSims)
SpectrographConfigs ==
    {[deck_size |-> Quantity(mapped_main_deck_list),
      n_simulations |-> IF m THEN 1 ELSE MaxSims, cycler_logic |-> l,
      virgin_birth |-> DeckFlag(VirginBirth), crowds |-> DeckFlag(Crowds),
      denarius |-> DeckFlag(Denarius),
      four_drachma |-> DeckFlag(FourDrachmaCoin),
      only_matthew_results |-> m] :
        l \in {"random", "optimized"}, m \in BOOLEAN}

\* Shuffles of the template of the SpectrographSimulation objects, tabulated
ResetDecks_v2 ==
    [cards \in {load_decklist(mapped_main_deck_list, 1)} |-> Shuffles(cards)]

----------------------------------------------------------------------------
(* src/spectrograph_simulation.py: _draw_cards and the sub-resolutions.    *)
(* An operator returns the zones and the exception raised, "" for none.    *)

Ok(z) == [z |-> z, err |-> ""]

Raise(z, e) == [z |-> z, err |-> e]

\* lines 101-107: the loop over drawn_cards from position i on; the
\* outcomes it can have
RECURSIVE ResolveStars_v2(_, _, _, _)
ResolveStars_v2(drawn_cards, cards, i, cycler_logic) ==
    IF i > Len(drawn_cards)
    THEN {[drawn |-> drawn_cards, cards |-> cards, err |-> ""]}
    ELSE IF drawn_cards[i] = None
    THEN {[drawn |-> drawn_cards, cards |-> cards, err |-> "AttributeError"]}
    ELSE IF drawn_cards[i].name = VirginBirth
    THEN UNION {IF r.err # ""
                THEN {[drawn |-> drawn_cards, cards |-> r.cards, err |-> r.err]}
                ELSE ResolveStars_v2([drawn_cards EXCEPT ![i] = r.output],
                                     r.cards, i + 1, cycler_logic) :
                   r \in ResolveTheVirginBirth_v2(cards, drawn_cards[i],
                                                  cycler_logic)}
    ELSE ResolveStars_v2(drawn_cards, cards, i + 1, cycler_logic)

\* lines 96-109: the draw, the virgin birth and hand.add; the outcomes
DrawBatch_v2(z, n_cards, resolve_stars, c) ==
    LET d  == DrawN_v2(z.deck, n_cards)
        rs == IF resolve_stars /\ c.virgin_birth
              THEN ResolveStars_v2(d.drawn, d.cards, 1, c.cycler_logic)
              ELSE {[drawn |-> d.drawn, cards |-> d.cards, err |-> ""]}
    IN  {IF r.err # "" THEN Raise([z EXCEPT !.deck = r.cards], r.err)
         ELSE Ok([z EXCEPT !.deck = r.cards,
                           !.hand = Extend_v2(z.hand, r.drawn)]) : r \in rs}

\* the type remove is called with to choose the card to give up
GiveUp(cycler_logic) ==
    IF cycler_logic = "optimized" THEN "MostBrigades" ELSE "RandomNonLostSoul"

\* _resolve_cycler
ResolveCycler(z, cycler_logic) ==
    LET r == Remove_v2(z.hand, "", GiveUp(cycler_logic))
        d == DrawN_v2(BottomCards_v2(z.deck, <<r.card>>), 1)
    IN  IF r.err # "" THEN Raise(z, r.err)
        ELSE Ok([z EXCEPT !.deck = d.cards,
                          !.hand = Extend_v2(r.cards, d.drawn)])

\* _resolve_prosperity
ResolveProsperity(z, cycler_logic) ==
    LET r == Remove_v2(z.hand, "", GiveUp(cycler_logic))
        d == DrawN_v2(z.deck, 2)
    IN  IF r.err # "" THEN Raise(z, r.err)
        ELSE Ok([z EXCEPT !.discard = Add_v2(z.discard, r.card),
                          !.deck = d.cards,
                          !.hand = Extend_v2(r.cards, d.drawn)])

\* _resolve_darkness
ResolveDarkness(z) ==
    LET e == SearchFor_v2(z.deck, "", "Evil Character", "", -1)
    IN  IF e.err # "" THEN Raise(z, e.err)
        ELSE IF e.card = None THEN Ok(z)
        ELSE Ok([z EXCEPT !.deck = e.cards, !.hand = Add_v2(z.hand, e.card)])

\* lines 158-168 of _resolve_lawless: the loop over top_six from position
\* i on (a pop shortens the list the loop is enumerating), then the
\* underdeck
RECURSIVE LawlessLoop(_, _, _, _, _)
LawlessLoop(z, top_six, i, got_evil, cycler_logic) ==
    IF i > Len(top_six)
    THEN Ok([z EXCEPT !.deck = BottomCards_v2(z.deck, top_six)])
    ELSE IF top_six[i] = None THEN Raise(z, "AttributeError")
    ELSE IF top_six[i].type = "Lost Soul"
    THEN LET z1 == [z EXCEPT !.territory = Add_v2(z.territory, top_six[i])]
             c  == IF top_six[i].name \in CYCLER_SOULS
                   THEN ResolveCycler(z1, cycler_logic) ELSE Ok(z1)
         IN  IF c.err # "" THEN c
             ELSE LawlessLoop(c.z, RemoveAt(top_six, i), i + 1, got_evil,
                              cycler_logic)
    ELSE IF ~got_evil /\ top_six[i].alignment = "Evil"
    THEN LawlessLoop([z EXCEPT !.hand = Add_v2(z.hand, top_six[i])],
                     RemoveAt(top_six, i), i + 1, TRUE, cycler_logic)
    ELSE LawlessLoop(z, top_six, i + 1, got_evil, cycler_logic)

\* _resolve_lawless
ResolveLawless(z, cycler_logic) ==
    LET d == DrawN_v2(z.deck, VirginBirthWindow)
    IN  LawlessLoop([z EXCEPT !.deck = d.cards], d.drawn, 1, FALSE,
                    cycler_logic)

\* lines 113-128: one iteration of the while loop (the Hand holds a lost
\* soul and no None)
LostSoulIteration_v2(z, cycler_logic) ==
    LET r  == Remove_v2(z.hand, "", "Lost Soul")
        d  == IF Len(z.deck) # 0 THEN DrawN_v2(z.deck, 1)
              ELSE [drawn |-> <<>>, cards |-> z.deck]
        z1 == [z EXCEPT !.hand = Extend_v2(r.cards, d.drawn),
                        !.territory = Add_v2(z.territory, r.card),
                        !.deck = d.cards]
    IN  IF r.card.name \in CYCLER_SOULS THEN ResolveCycler(z1, cycler_logic)
        ELSE IF r.card.name = Prosperity_v2
        THEN ResolveProsperity(z1, cycler_logic)
        ELSE IF r.card.name \in DARKNESS THEN ResolveDarkness(z1)
        ELSE IF r.card.name \in LAWLESS THEN ResolveLawless(z1, cycler_logic)
        ELSE Ok(z1)

----------------------------------------------------------------------------
(* src/spectrograph_simulation.py: the plays of the solitaire turn.  An    *)
(* operator returns the zones, whether _draw_cards is called, and the      *)
(* exception raised.                                                       *)

Played(z, draw, e) == [z |-> z, draw |-> draw, err |-> e]

\* lines 200-208 of _play_denarius: the cards it moves before it draws
PlayDenarius(z, denarius_from_deck) ==
    LET dn == Remove_v2(IF denarius_from_deck THEN z.deck ELSE z.hand,
                        Denarius, "")
        z1 == IF denarius_from_deck
              THEN [z EXCEPT !.deck = dn.cards,
                             !.territory = Add_v2(z.territory, dn.card)]
              ELSE [z EXCEPT !.hand = dn.cards,
                             !.territory = Add_v2(z.territory, dn.card)]
        e1 == SearchFor_v2(z1.deck, "", "", "is_emperor", -1)
        e2 == SearchFor_v2(z1.hand, "", "", "is_emperor", -1)
        z2 == IF e1.card # None
              THEN [z1 EXCEPT !.deck = e1.cards,
                              !.territory = Add_v2(z1.territory, e1.card)]
              ELSE IF e2.card # None
              THEN [z1 EXCEPT !.hand = e2.cards,
                              !.territory = Add_v2(z1.territory, e2.card)]
              ELSE z1
        t  == SearchFor_v2(z2.territory, "", "", "is_emperor", -1)
    IN  IF dn.err # "" THEN Played(z, FALSE, dn.err)
        ELSE IF e1.err # "" THEN Played(z1, FALSE, e1.err)
        ELSE IF e1.card = None /\ e2.err # "" THEN Played(z1, FALSE, e2.err)
        ELSE IF t.err # "" THEN Played(z2, FALSE, t.err)
        ELSE Played([z2 EXCEPT !.territory = t.cards], t.card # None, "")

\* lines 214-216 of _play_peter_and_coin: the cards it moves before it
\* draws
PlayPeterAndCoin_v2(z, coin_from_deck) ==
    LET c  == Remove_v2(IF coin_from_deck THEN z.deck ELSE z.hand,
                        FourDrachmaCoin, "")
        z1 == IF coin_from_deck
              THEN [z EXCEPT !.deck = c.cards,
                             !.territory = Add_v2(z.territory, c.card)]
              ELSE [z EXCEPT !.hand = c.cards,
                             !.territory = Add_v2(z.territory, c.card)]
        p  == Remove_v2(z1.hand, SimonPeter, "")
    IN  IF c.err # "" THEN Played(z, FALSE, c.err)
        ELSE IF p.err # "" THEN Played(z1, FALSE, p.err)
        ELSE Played([z1 EXCEPT !.hand = p.cards,
                               !.territory = Add_v2(z1.territory, p.card)],
                    TRUE, "")

\* lines 228 and 235 of _play_delivered: discard Delivered
DiscardDelivered(z) ==
    LET r == Remove_v2(z.hand, Delivered, "")
    IN  [z EXCEPT !.hand = r.cards, !.discard = Add_v2(z.discard, r.card)]

\* lines 260-271: the condition under which Delivered is played, on zones
\* without None (self.territory_class_for_turn is never set to True)
DeliveredPlayable(z) ==
    /\ Count_v2(z.hand, Delivered, "") > 0
    /\ \/ SearchForBrigades(z.hand, DeliveredBrigades) = 1
       \/ SearchForBrigades(z.territory, DeliveredBrigades) = 1

\* _count_n_brigades_in_hand, on a Hand without None
count_n_brigades_in_hand(cards) ==
    LET brigades == UNION {Range(cards[i].brigade) :
                             i \in {j \in 1..Len(cards) :
                                       cards[j].name # "Doubt (LoC Plus)"}}
    IN  Cardinality(UNION {IF b = "Good Multi" THEN GOOD_BRIGADES
                           ELSE IF b = "Evil Multi" THEN EVIL_BRIGADES
                           ELSE {b} : b \in brigades})

\* the steps of check_and_play, in order
CheckAndPlay == <<"denarius", "peter_and_coin", "delivered">>

----------------------------------------------------------------------------
(* The SpectrographSimulation as a state machine.  stack holds the steps   *)
(* of the solitaire turn that are still to be taken.                       *)

\* create_empty_log_file lines 32-40: the fieldnames of the header
headers_v2 ==
    <<"sim_number", "n_cards_matthew_drew", "deck_size", "cards_in_hand",
      "denarius_draw", "four_drachman_draw", "whiff_on_heroes">>

\* the keys of the record of a trial, in the order of the dict: those of
\* _calculate_matthew_count (lines 190-194), then, after turn_log.update,
\* those of self.output (lines 242-247)
TurnLogKeys_v2(only_matthew_results) ==
       <<"sim_number", "n_cards_matthew_draw", "deck_size">>
    \o (IF only_matthew_results THEN <<>>
        ELSE <<"cards_in_hand", "denarius_draw", "four_drachman_draw",
               "whiff_on_heroes">>)

InitSpectrograph ==
    /\ prog = "SpectrographSimulation"
    /\ cfg \in SpectrographConfigs
    /\ deck = load_decklist(mapped_main_deck_list, 1)
    /\ hand = <<>>
    /\ territory = <<>>
    /\ discard = <<>>
    /\ pc = "reset"
    /\ stack = <<>>
    /\ ret = ""
    /\ sim_number = 0
    /\ turn_number = 0
    /\ log_file = <<>>
    /\ n_logged = 0
    /\ err = ""
    /\ n_iter = 0
    /\ loop_bound = 0
    /\ before = <<>>
    /\ result = None
    /\ output = NoOutput
    /\ artifact_slot_used_for_turn = FALSE
    /\ original_cards = OriginalCards(deck)
    /\ game_log = EmptyLogFile(headers_v2)

\* what no step of a trial changes
SpectrographFrame ==
    UNCHANGED <<prog, cfg, turn_number, before, result, original_cards>>

\* an exception escapes: the run ends where it is
Crash_v2(z, e) ==
    /\ SetZones(z)
    /\ err' = e
    /\ pc' = "crashed"
    /\ UNCHANGED <<stack, ret, n_iter, loop_bound, output,
                   artifact_slot_used_for_turn, sim_number, log_file,
                   n_logged>>

\* _draw_cards reaches its while loop with outcome r of the draw
EnterLoop_v2(r, caller) ==
    /\ SetZones(r.z)
    /\ err' = r.err
    /\ pc' = IF r.err # "" THEN "crashed" ELSE "loop"
    /\ ret' = caller
    /\ n_iter' = 0
    /\ loop_bound' = Len(r.z.hand) + Len(r.z.deck)

\* ResetSimulationState_v2 without self.hand.reset()
ResetSimulationStateKeepsHand ==
    /\ prog = "SpectrographSimulation"
    /\ pc = "reset"
    /\ deck' \in ResetDecks_v2[Reset(original_cards, deck)]
    /\ territory' = Reset(OriginalCards(<<>>), territory)
    /\ discard' = Reset(OriginalCards(<<>>), discard)
    /\ hand' = hand
    /\ pc' = "opening"
    /\ log_file' = <<>>
    /\ output' = NoOutput
    /\ artifact_slot_used_for_turn' = FALSE
    /\ n_iter' = 0
    /\ loop_bound' = 0
    /\ stack' = <<>>
    /\ ret' = ""
    /\ UNCHANGED <<sim_number, n_logged, err>>
    /\ UNCHANGED game_log
    /\ SpectrographFrame

\* _reset_simulation_state
ResetSimulationState_v2 ==
    /\ prog = "SpectrographSimulation"
    /\ pc = "reset"
    /\ deck' \in ResetDecks_v2[Reset(original_cards, deck)]
    /\ territory' = Reset(OriginalCards(<<>>), territory)
    /\ discard' = Reset(OriginalCards(<<>>), discard)
    /\ hand' = Reset(OriginalCards(<<>>), hand)
    /\ pc' = "opening"
    /\ log_file' = <<>>
    /\ output' = NoOutput
    /\ artifact_slot_used_for_turn' = FALSE
    /\ n_iter' = 0
    /\ loop_bound' = 0
    /\ stack' = <<>>
    /\ ret' = ""
    /\ UNCHANGED <<sim_number, n_logged, err>>
    /\ UNCHANGED game_log
    /\ SpectrographFrame

\* run line 322: the opening draw, up to the while loop
OpeningDraw_v2 ==
    /\ prog = "SpectrographSimulation"
    /\ pc = "opening"
    /\ \E r \in DrawBatch_v2(Z, OpeningHandSize, TRUE, cfg) :
           EnterLoop_v2(r, "open")
    /\ UNCHANGED <<stack, sim_number, log_file, n_logged, output,
                   artifact_slot_used_for_turn>>
    /\ UNCHANGED game_log
    /\ SpectrographFrame

\* _draw_cards lines 112-128: one iteration of the while loop
LostSoulStep_v2 ==
    /\ prog = "SpectrographSimulation"
    /\ pc = "loop"
    /\ HasNone(hand) \/ Count_v2(hand, "", "Lost Soul") > 0
    /\ IF HasNone(hand)
       THEN Crash_v2(Z, "AttributeError")
       ELSE LET r == LostSoulIteration_v2(Z, cfg.cycler_logic)
            IN  IF r.err # "" THEN Crash_v2(r.z, r.err)
                ELSE /\ SetZones(r.z)
                     /\ n_iter' = n_iter + 1
                     /\ UNCHANGED <<pc, stack, ret, err, loop_bound, output,
                                    artifact_slot_used_for_turn, sim_number,
                                    log_file, n_logged>>
    /\ UNCHANGED game_log
    /\ SpectrographFrame

\* _draw_cards line 112: the Hand holds no lost soul, _draw_cards returns
DrawCardsReturn_v2 ==
    /\ prog = "SpectrographSimulation"
    /\ pc = "loop"
    /\ ~HasNone(hand)
    /\ Count_v2(hand, "", "Lost Soul") = 0
    /\ pc' = IF ret = "open" THEN "matthew" ELSE "solitaire"
    /\ UNCHANGED <<deck, hand, territory, discard, stack, ret, sim_number,
                   log_file, n_logged, err, n_iter, loop_bound, output,
                   artifact_slot_used_for_turn>>
    /\ UNCHANGED game_log
    /\ SpectrographFrame

\* _calculate_matthew_count: random.random() decides whether Matthew
\* fizzles and whether Crowds protects the Hand; run lines 327-333: with
\* only_matthew_results the record of the trial is the matthew count
CalculateMatthewCount ==
    /\ prog = "SpectrographSimulation"
    /\ pc = "matthew"
    /\ \E fizzled, answered \in BOOLEAN :
          LET protected == /\ cfg.crowds
                           /\ Count_v2(territory, Crowds, "") > 0
                           /\ ~answered
              n == IF fizzled \/ protected THEN 0
                   ELSE count_n_brigades_in_hand(hand)
          IN  log_file' = <<[sim_number |-> sim_number,
                             n_cards_matthew_draw |-> n,
                             deck_size |-> cfg.deck_size]>>
    /\ IF cfg.only_matthew_results
       THEN /\ n_logged' = n_logged + 1
            /\ sim_number' = sim_number + 1
            /\ pc' = IF sim_number + 1 < cfg.n_simulations
                     THEN "reset" ELSE "write"
       ELSE /\ pc' = "take_solitaire_turn"
            /\ UNCHANGED <<sim_number, n_logged>>
    /\ UNCHANGED <<deck, hand, territory, discard, stack, ret, err, n_iter,
                   loop_bound, output, artifact_slot_used_for_turn>>
    /\ UNCHANGED game_log
    /\ SpectrographFrame

\* _take_solitaire_turn lines 240-247 and 275: the flags of the turn, then
\* check_and_play
TakeSolitaireTurn ==
    /\ prog = "SpectrographSimulation"
    /\ pc = "take_solitaire_turn"
    /\ artifact_slot_used_for_turn' = FALSE
    /\ output' = NoOutput
    /\ stack' = CheckAndPlay \o <<"again">>
    /\ pc' = "solitaire"
    /\ UNCHANGED <<deck, hand, territory, discard, ret, sim_number, log_file,
                   n_logged, err, n_iter, loop_bound>>
    /\ UNCHANGED game_log
    /\ SpectrographFrame

\* a step of the solitaire turn leaves the zones as they are
SkipStep ==
    /\ stack' = Tail(stack)
    /\ UNCHANGED <<deck, hand, territory, discard, pc, ret, err, n_iter,
                   loop_bound, output, artifact_slot_used_for_turn>>

\* a play p of the solitaire turn is made: the cards move and, when the
\* play draws, n_cards are drawn and the flag of the play is set
PlayStep(p, n_cards, flag) ==
    IF p.err # ""
    THEN /\ SetZones(p.z)
         /\ err' = p.err
         /\ pc' = "crashed"
         /\ UNCHANGED <<stack, ret, n_iter, loop_bound, output>>
    ELSE IF p.draw
    THEN /\ \E r \in DrawBatch_v2(p.z, n_cards, FALSE, cfg) :
                EnterLoop_v2(r, "solitaire")
         /\ output' = [output EXCEPT ![flag] = TRUE]
         /\ stack' = Tail(stack)
    ELSE /\ SetZones(p.z)
         /\ stack' = Tail(stack)
         /\ UNCHANGED <<pc, ret, err, n_iter, loop_bound, output>>

\* check_and_play lines 250-254: play Denarius from the Hand
CheckDenarius ==
    /\ prog = "SpectrographSimulation"
    /\ pc = "solitaire"
    /\ stack # <<>> /\ Head(stack) = "denarius"
    /\ IF HasNone(hand)
       THEN Crash_v2(Z, "AttributeError")
       ELSE IF Count_v2(hand, Denarius, "") > 0
               /\ ~artifact_slot_used_for_turn
       THEN /\ PlayStep(PlayDenarius(Z, FALSE), DenariusDrawSize,
                        "denarius_draw")
            /\ artifact_slot_used_for_turn' = TRUE
       ELSE SkipStep
    /\ UNCHANGED <<sim_number, log_file, n_logged>>
    /\ UNCHANGED game_log
    /\ SpectrographFrame

\* check_and_play lines 255-259: play Four-Drachma Coin and Simon Peter
CheckPeterAndCoin ==
    /\ prog = "SpectrographSimulation"
    /\ pc = "solitaire"
    /\ stack # <<>> /\ Head(stack) = "peter_and_coin"
    /\ IF HasNone(hand)
       THEN Crash_v2(Z, "AttributeError")
       ELSE IF Count_v2(hand, FourDrachmaCoin, "") > 0
               /\ Count_v2(hand, SimonPeter, "") > 0
       THEN /\ PlayStep(PlayPeterAndCoin_v2(Z, FALSE), CoinDrawSize,
                        "four_drachman_draw")
            /\ UNCHANGED artifact_slot_used_for_turn
       ELSE SkipStep
    /\ UNCHANGED <<sim_number, log_file, n_logged>>
    /\ UNCHANGED game_log
    /\ SpectrographFrame

\* check_and_play lines 260-272 and _play_delivered
CheckDelivered ==
    /\ prog = "SpectrographSimulation"
    /\ pc = "solitaire"
    /\ stack # <<>> /\ Head(stack) = "delivered"
    /\ IF HasNone(hand)
       THEN Crash_v2(Z, "AttributeError")
       ELSE IF ~DeliveredPlayable(Z) THEN SkipStep
       ELSE IF /\ HasNone(deck)
               /\ \/ /\ cfg.four_drachma
                     /\ ~output.four_drachman_draw
                     /\ Count_v2(hand, SimonPeter, "") > 0
                  \/ cfg.denarius /\ ~output.denarius_draw
       THEN Crash_v2(Z, "AttributeError")
       ELSE IF /\ cfg.four_drachma
               /\ ~output.four_drachman_draw
               /\ Count_v2(hand, SimonPeter, "") > 0
               /\ Count_v2(deck, FourDrachmaCoin, "") > 0
       THEN /\ PlayStep(PlayPeterAndCoin_v2(DiscardDelivered(Z), TRUE),
                        CoinDrawSize, "four_drachman_draw")
            /\ UNCHANGED artifact_slot_used_for_turn
       ELSE IF /\ cfg.denarius
               /\ ~output.denarius_draw
               /\ Count_v2(deck, Denarius, "") > 0
       THEN /\ PlayStep(PlayDenarius(DiscardDelivered(Z), TRUE),
                        DenariusDrawSize, "denarius_draw")
            /\ artifact_slot_used_for_turn' = TRUE
       ELSE SkipStep
    /\ UNCHANGED <<sim_number, log_file, n_logged>>
    /\ UNCHANGED game_log
    /\ SpectrographFrame

\* _take_solitaire_turn lines 278-279: check_and_play again after a draw
CheckAgain ==
    /\ prog = "SpectrographSimulation"
    /\ pc = "solitaire"
    /\ stack # <<>> /\ Head(stack) = "again"
    /\ stack' = IF output.denarius_draw \/ output.four_drachman_draw
                THEN CheckAndPlay ELSE <<>>
    /\ UNCHANGED <<deck, hand, territory, discard, pc, ret, sim_number,
                   log_file, n_logged, err, n_iter, loop_bound, output,
                   artifact_slot_used_for_turn>>
    /\ UNCHANGED game_log
    /\ SpectrographFrame

\* _take_solitaire_turn lines 282-285 and run lines 330-333: the whiff
\* flag, the record of the trial, the next trial
FinishSolitaireTurn ==
    /\ prog = "SpectrographSimulation"
    /\ pc = "solitaire"
    /\ stack = <<>>
    /\ IF HasNone(hand)
       THEN Crash_v2(Z, "AttributeError")
       ELSE /\ output' = [output EXCEPT !.whiff_on_heroes =
                             /\ Count_v2(hand, "", "Hero") = 0
                             /\ Count_v2(territory, "", "Hero") = 0]
            /\ log_file' = <<[turn_log |-> log_file[1], output |-> output']>>
            /\ n_logged' = n_logged + 1
            /\ sim_number' = sim_number + 1
            /\ pc' = IF sim_number + 1 < cfg.n_simulations
                     THEN "reset" ELSE "write"
            /\ UNCHANGED <<deck, hand, territory, discard, stack, ret, err,
                           n_iter, loop_bound, artifact_slot_used_for_turn>>
    /\ UNCHANGED game_log
    /\ SpectrographFrame

\* run line 336: the bulk write
AppendLogToFile_v2 ==
    /\ prog = "SpectrographSimulation"
    /\ pc = "write"
    /\ pc' = "done"
    /\ game_log' = AppendLog(game_log, n_logged,
                             TurnLogKeys_v2(cfg.only_matthew_results))
    /\ UNCHANGED <<deck, hand, territory, discard, stack, ret, sim_number,
                   log_file, n_logged, err, n_iter, loop_bound, output,
                   artifact_slot_used_for_turn>>
    /\ SpectrographFrame

NextSpectrograph ==
    \/ ResetSimulationState_v2
    \/ OpeningDraw_v2
    \/ LostSoulStep_v2
    \/ DrawCardsReturn_v2
    \/ CalculateMatthewCount
    \/ TakeSolitaireTurn
    \/ CheckDenarius
    \/ CheckPeterAndCoin
    \/ CheckDelivered
    \/ CheckAgain
    \/ FinishSolitaireTurn
    \/ AppendLogToFile_v2

SpecSpectrograph == InitSpectrograph /\ [][NextSpectrograph]_vars

\* the two simulations: a run is a run of one of them
InitSimulations == InitSimulation \/ InitSpectrograph

NextSimulations == NextSimulation \/ NextSpectrograph

SpecSimulations == InitSimulations /\ [][NextSimulations]_vars

----------------------------------------------------------------------------
(* The Deck of src/models.py on its own: a Deck is constructed with some   *)
(* cards and one operation is called on it.                                *)

\* most cards of a Deck under test
MaxTestDeck == 7

\* most cards of a Deck under test that are not plain cards
MaxTestNamed == 2

\* the (card_type, subtype) pairs of the named cards of a Deck under test
TestKinds ==
    {<<"macguffin", "">>, <<"tutor", "">>, <<"non_lost_soul", "peter">>,
     <<"non_lost_soul", "coin">>, <<"lost_soul", "meek">>}

\* the Decks under test: up to MaxTestDeck cards, up to MaxTestNamed of
\* them named cards, at any positions
TestDecks ==
    UNION {UNION {{[i \in 1..n |->
                       IF i \in P THEN Card(i, k[i][1], k[i][2])
                       ELSE Card(i, "non_lost_soul", "")] :
                    k \in [P -> TestKinds]} :
                  P \in {Q \in SUBSET (1..n) : Cardinality(Q) <= MaxTestNamed}} :
           n \in 0..MaxTestDeck}

\* the placeholder handed to resolve_the_virgin_birth
VirginBirthCard == Card(MaxTestDeck + 2, "non_lost_soul", "virgin_birth")

InitDeck ==
    /\ prog = "Deck"
    /\ cfg = [deck_size |-> 0]
    /\ deck \in TestDecks
    /\ hand = <<>>
    /\ territory = <<>>
    /\ discard = <<>>
    /\ pc = "call"
    /\ stack = <<>>
    /\ ret = ""
    /\ sim_number = 0
    /\ turn_number = 0
    /\ log_file = <<>>
    /\ n_logged = 0
    /\ err = ""
    /\ n_iter = 0
    /\ loop_bound = 0
    /\ before = <<>>
    /\ result = None
    /\ output = NoOutput
    /\ artifact_slot_used_for_turn = FALSE
    /\ original_cards = OriginalCards(deck)
    /\ game_log = NoLogFile

\* deck.resolve_the_virgin_birth(virgin_birth_card)
CallResolveTheVirginBirth ==
    /\ prog = "Deck"
    /\ pc = "call"
    /\ LET r == ResolveTheVirginBirth(deck, VirginBirthCard)
       IN  /\ deck' = r.cards
           /\ result' = r.output
           /\ err' = r.err
    /\ before' = deck
    /\ pc' = "returned"
    /\ ret' = "resolve_the_virgin_birth"
    /\ UNCHANGED <<output, artifact_slot_used_for_turn>>
    /\ UNCHANGED <<original_cards, game_log>>
    /\ UNCHANGED <<prog, cfg, hand, territory, discard, stack, sim_number,
                   turn_number, log_file, n_logged, n_iter, loop_bound>>

NextDeck == CallResolveTheVirginBirth

SpecDeck == InitDeck /\ [][NextDeck]_vars

----------------------------------------------------------------------------
(* SpectrographSimulation._resolve_lawless called on the Decks a shuffle   *)
(* can leave under the lawless lost soul, with a Hand of two cards.        *)

\* the largest Deck _resolve_lawless is called on
MaxLawlessDeck == 6

\* the cards of the deck file that _resolve_lawless tells apart
LawlessKinds ==
    {e \in Range(NamedEntries) :
        e.name \in {"Lost Soul", "Lost Soul (cycler)", "Evil Character", "Hero"}}

\* the Decks: up to max cards of these kinds in any order
LawlessDecks(max) ==
    UNION {{[i \in 1..n |->
                Card_v2(i, k[i].name, k[i].type, k[i].brigade, k[i].alignment,
                        k[i].tags)] :
              k \in [1..n -> LawlessKinds]} :
           n \in 0..max}

\* the Hand: two filler cards of the deck file
LawlessHand ==
    LET e == mapped_main_deck_list[Len(mapped_main_deck_list)]
    IN  [i \in 1..2 |->
            Card_v2(MaxLawlessDeck + 1 + i, e.name, e.type, e.brigade,
                    e.alignment, e.tags)]

InitLawless ==
    /\ prog = "_resolve_lawless"
    /\ cfg \in SpectrographConfigs
    /\ deck \in LawlessDecks(MaxLawlessDeck)
    /\ hand = LawlessHand
    /\ territory = <<>>
    /\ discard = <<>>
    /\ pc = "call"
    /\ stack = <<>>
    /\ ret = ""
    /\ sim_number = 0
    /\ turn_number = 0
    /\ log_file = <<>>
    /\ n_logged = 0
    /\ err = ""
    /\ n_iter = 0
    /\ loop_bound = 0
    /\ before = <<>>
    /\ result = None
    /\ output = NoOutput
    /\ artifact_slot_used_for_turn = FALSE
    /\ original_cards = OriginalCards(deck)
    /\ game_log = NoLogFile

\* self._resolve_lawless()
CallResolveLawless ==
    /\ prog = "_resolve_lawless"
    /\ pc = "call"
    /\ LET r == ResolveLawless(Zones(deck, hand, territory, discard),
                               cfg.cycler_logic)
       IN  /\ deck' = r.z.deck
           /\ hand' = r.z.hand
           /\ territory' = r.z.territory
           /\ discard' = r.z.discard
           /\ err' = r.err
    /\ before' = deck
    /\ pc' = "returned"
    /\ ret' = "_resolve_lawless"
    /\ UNCHANGED <<output, artifact_slot_used_for_turn>>
    /\ UNCHANGED <<original_cards, game_log>>
    /\ UNCHANGED <<prog, cfg, stack, sim_number, turn_number, log_file,
                   n_logged, n_iter, loop_bound, result>>

NextLawless == CallResolveLawless

SpecLawless == InitLawless /\ [][NextLawless]_vars

----------------------------------------------------------------------------
(* _take_solitaire_turn on a deck file that lists Delivered and Denarius   *)
(* twice: the trial is where run calls _take_solitaire_turn, after the     *)
(* opening draw and the matthew count, with a Hand of eight cards.         *)

\* the number of cards of the deck file
SolitaireDeckSize == 16

\* the deck file: two Delivered, two Denarius, the emperor, the coin, Simon
\* Peter and filler cards
solitaire_deck_list ==
    LET named == SelectSeq(NamedEntries, LAMBDA e :
                     e.name \in {Delivered, Denarius, "Emperor Nero",
                                 FourDrachmaCoin, SimonPeter})
        listed == [i \in 1..Len(named) |->
                      [named[i] EXCEPT !.quantity =
                          IF named[i].name \in {Delivered, Denarius}
                          THEN 2 ELSE 1]]
        filler == mapped_main_deck_list[Len(mapped_main_deck_list)]
    IN  Append(listed,
               [filler EXCEPT !.quantity = SolitaireDeckSize - Quantity(listed)])

\* the SpectrographSimulation objects of this deck file, after
\* initialize_decklist
SolitaireConfigs ==
    {[deck_size |-> Quantity(solitaire_deck_list), n_simulations |-> 1,
      cycler_logic |-> l, virgin_birth |-> FALSE, crowds |-> FALSE,
      denarius |-> TRUE, four_drachma |-> TRUE,
      only_matthew_results |-> FALSE] : l \in {"random", "optimized"}}

\* the Hands and Decks the opening draw can leave: any of the named cards
\* and filler cards in the Hand, the other named cards on top of the Deck
\* or at its bottom
SolitaireDeals ==
    LET cards  == load_decklist(solitaire_deck_list, 1)
        named  == SelectSeq(cards, LAMBDA c : ~IsPlain(c))
        plain  == SelectSeq(cards, IsPlain)
        in(h)  == SelectSeq(named, LAMBDA c : c.id \in h)
        out(h) == SelectSeq(named, LAMBDA c : c.id \notin h)
        n(h)   == OpeningHandSize - Cardinality(h)
    IN  {[hand |-> in(h) \o SubSeq(plain, 1, n(h)),
          deck |-> IF top THEN out(h) \o SubSeq(plain, n(h) + 1, Len(plain))
                   ELSE SubSeq(plain, n(h) + 1, Len(plain)) \o out(h)] :
            h \in SUBSET {c.id : c \in Range(named)}, top \in BOOLEAN}

InitSolitaire ==
    /\ prog = "SpectrographSimulation"
    /\ cfg \in SolitaireConfigs
    /\ \E d \in SolitaireDeals : hand = d.hand /\ deck = d.deck
    /\ territory = <<>>
    /\ discard = <<>>
    /\ pc = "take_solitaire_turn"
    /\ stack = <<>>
    /\ ret = "open"
    /\ sim_number = 0
    /\ turn_number = 0
    /\ log_file = <<[sim_number |-> 0,
                     n_cards_matthew_draw |-> count_n_brigades_in_hand(hand),
                     deck_size |-> cfg.deck_size]>>
    /\ n_logged = 0
    /\ err = ""
    /\ n_iter = 0
    /\ loop_bound = Quantity(solitaire_deck_list)
    /\ before = <<>>
    /\ result = None
    /\ output = NoOutput
    /\ artifact_slot_used_for_turn = FALSE
    /\ original_cards = OriginalCards(load_decklist(solitaire_deck_list, 1))
    /\ game_log = EmptyLogFile(headers_v2)

NextSolitaire ==
    \/ TakeSolitaireTurn
    \/ CheckDenarius
    \/ CheckPeterAndCoin
    \/ CheckDelivered
    \/ CheckAgain
    \/ DrawCardsReturn_v2
    \/ FinishSolitaireTurn

SpecSolitaire == InitSolitaire /\ [][NextSolitaire]_vars

----------------------------------------------------------------------------
(* The operations of Zone and Deck (src/models.py, src/models_v2.py)       *)
(* called on a zone of cards: cfg holds the call, deck the cards of the    *)
(* zone, before the cards the zone held when the call was made, result     *)
(* what the call returned.                                                 *)

\* the largest zone an operation is called on, and the most cards given to
\* bottom_cards and top_cards
MaxZone == 4

MaxGiven == 2

\* the value a call returns when it raises
NoResult == None

\* the zones of models.py cards: up to max cards of the kinds of TestKinds
\* in any order
Zones_v1(max) ==
    UNION {{[i \in 1..n |-> Card(i, k[i][1], k[i][2])] :
              k \in [1..n -> TestKinds]} : n \in 0..max}

\* the cards given to bottom_cards and top_cards: cards that are not in
\* the zone
Given_v1 ==
    {[i \in 1..n |-> Card(MaxZone + i, "non_lost_soul", "")] : n \in 0..MaxGiven}

\* a call of an operation of models.py; an argument that is not given is
\* "" (top_n: -1)
Call(op, card_type, subtype, top_n, n, cards, random_order) ==
    [op |-> op, card_type |-> card_type, subtype |-> subtype,
     top_n |-> top_n, n |-> n, cards |-> cards,
     random_order |-> random_order]

Calls_v1 ==
    LET types    == {"", "tutor", "non_lost_soul"}
        subtypes == {"", "peter"}
    IN       {Call(op, t, s, -1, 0, <<>>, FALSE) :
                 op \in {"count", "remove"}, t \in types, s \in subtypes}
        \cup {Call("search_for", t, s, n, 0, <<>>, FALSE) :
                 t \in types, s \in subtypes, n \in -1..MaxZone}
        \cup {Call("draw_n", "", "", -1, n, <<>>, FALSE) : n \in -1..(MaxZone + 1)}
        \cup {Call("bottom_cards", "", "", -1, 0, g, r) :
                 g \in Given_v1, r \in BOOLEAN}
        \cup {Call("top_cards", "", "", -1, 0, g, FALSE) : g \in Given_v1}

\* the zones of models_v2.py cards: up to max cards of the deck file
ZoneKinds_v2 ==
    {e \in Range(mapped_main_deck_list) :
        e.name \in {"Lost Soul", "Evil Character", "Emperor Nero", "Hero",
                    "Filler"}}

CardOf(id, e) == Card_v2(id, e.name, e.type, e.brigade, e.alignment, e.tags)

Zones_v2(max) ==
    UNION {{[i \in 1..n |-> CardOf(i, k[i])] : k \in [1..n -> ZoneKinds_v2]} :
           n \in 0..max}

Given_v2 ==
    {[i \in 1..n |->
         CardOf(MaxZone + i, mapped_main_deck_list[Len(mapped_main_deck_list)])] :
       n \in 0..MaxGiven}

\* a call of an operation of models_v2.py
Call_v2(op, name, type, cards) ==
    [op |-> op, name |-> name, type |-> type, cards |-> cards]

Calls_v2 ==
         {Call_v2("remove", n, t, <<>>) :
             n \in {"", "Emperor Nero"},
             t \in {"", "Evil Character", "RandomNonLostSoul", "MostBrigades"}}
    \cup {Call_v2("count", n, t, <<>>) :
             n \in {"", "Hero", "Emperor Nero"}, t \in {"", "Evil Character"}}
    \cup {Call_v2("top_cards", "", "", g) : g \in Given_v2}
    \cup {[op |-> "draw_n", n |-> n] : n \in -1..1}
    \cup {[op |-> "search_for", name |-> n, type |-> t, tags |-> g,
           top_n |-> k] :
             n \in {"", "Emperor Nero"}, t \in {"", "Evil Character"},
             g \in {"", "is_emperor"}, k \in -1..2}

InitZone ==
    /\ prog \in {"Zone", "Zone_v2"}
    /\ cfg \in (IF prog = "Zone" THEN Calls_v1 ELSE Calls_v2)
    /\ deck \in (IF prog = "Zone" THEN Zones_v1(MaxZone) ELSE Zones_v2(MaxZone))
    /\ hand = <<>>
    /\ territory = <<>>
    /\ discard = <<>>
    /\ pc = "call"
    /\ stack = <<>>
    /\ ret = ""
    /\ sim_number = 0
    /\ turn_number = 0
    /\ log_file = <<>>
    /\ n_logged = 0
    /\ err = ""
    /\ n_iter = 0
    /\ loop_bound = 0
    /\ before = <<>>
    /\ result = NoResult
    /\ output = NoOutput
    /\ artifact_slot_used_for_turn = FALSE
    /\ original_cards = OriginalCards(deck)
    /\ game_log = NoLogFile

\* what a call leaves alone
ZoneFrame ==
    UNCHANGED <<original_cards, game_log>>
    /\ UNCHANGED <<prog, cfg, hand, territory, discard, stack, sim_number,
                turn_number, log_file, n_logged, n_iter, loop_bound, output,
                artifact_slot_used_for_turn>>

\* the call returns value and leaves the zone holding cards, or raises e
Return(op, value, cards, e) ==
    /\ before' = deck
    /\ deck' = cards
    /\ result' = value
    /\ err' = e
    /\ ret' = op
    /\ pc' = "returned"
    /\ ZoneFrame

\* zone.count(card_type, subtype)
CallCount ==
    /\ prog = "Zone" /\ pc = "call" /\ cfg.op = "count"
    /\ Return("count", Count(deck, cfg.card_type, cfg.subtype), deck, "")

\* zone.remove(card_type, subtype)
CallRemove ==
    /\ prog = "Zone" /\ pc = "call" /\ cfg.op = "remove"
    /\ LET r == Remove(deck, cfg.card_type, cfg.subtype)
       IN  Return("remove", r.card, r.cards, "")

\* zone.search_for(card_type, top_n, subtype)
CallSearchFor ==
    /\ prog = "Zone" /\ pc = "call" /\ cfg.op = "search_for"
    /\ IF SearchForInvalid(cfg.card_type, cfg.subtype)
       THEN Return("search_for", NoResult, deck, "ValueError")
       ELSE LET r == SearchFor(deck, cfg.card_type, cfg.top_n, cfg.subtype)
            IN  Return("search_for", r.card, r.cards, "")

\* deck.draw_n(n), of models.py and of models_v2.py
CallDrawN ==
    /\ prog \in {"Zone", "Zone_v2"} /\ pc = "call" /\ cfg.op = "draw_n"
    /\ IF DrawNInvalid(cfg.n)
       THEN Return("draw_n", NoResult, deck, "ValueError")
       ELSE LET d == IF prog = "Zone" THEN DrawN(deck, cfg.n)
                     ELSE DrawN_v2(deck, cfg.n)
            IN  Return("draw_n", d.drawn, d.cards, "")

\* deck.bottom_cards(cards, random_order)
CallBottomCards ==
    /\ prog = "Zone" /\ pc = "call" /\ cfg.op = "bottom_cards"
    /\ deck' \in (IF cfg.random_order THEN BottomCardsRandom(deck, cfg.cards)
                  ELSE {BottomCards(deck, cfg.cards)})
    /\ before' = deck
    /\ ret' = "bottom_cards"
    /\ pc' = "cycle"
    /\ UNCHANGED <<result, err>>
    /\ ZoneFrame

\* deck.top_cards(cards), of models.py and of models_v2.py
CallTopCards ==
    /\ prog \in {"Zone", "Zone_v2"} /\ pc = "call" /\ cfg.op = "top_cards"
    /\ deck' = (IF prog = "Zone" THEN TopCards(deck, cfg.cards)
                ELSE TopCards_v2(deck, cfg.cards))
    /\ before' = deck
    /\ ret' = "top_cards"
    /\ pc' = "cycle"
    /\ UNCHANGED <<result, err>>
    /\ ZoneFrame

\* the draw_n that follows: deck.draw_n(len(deck.cards)) after bottom_cards,
\* deck.draw_n(len(cards)) after top_cards
CallDrawNAfter ==
    /\ prog \in {"Zone", "Zone_v2"} /\ pc = "cycle"
    /\ LET n == IF ret = "bottom_cards" THEN Len(deck) ELSE Len(cfg.cards)
           d == IF prog = "Zone" THEN DrawN(deck, n) ELSE DrawN_v2(deck, n)
       IN  /\ IF DrawNInvalid(n)
              THEN result' = NoResult /\ err' = "ValueError" /\ deck' = deck
              ELSE result' = d.drawn /\ err' = "" /\ deck' = d.cards
    /\ pc' = "returned"
    /\ UNCHANGED <<before, ret>>
    /\ ZoneFrame

\* zone.count(name=, type=) of models_v2.py
CallCount_v2 ==
    /\ prog = "Zone_v2" /\ pc = "call" /\ cfg.op = "count"
    /\ IF CountInvalid_v2(cfg.name, cfg.type)
       THEN Return("count", NoResult, deck, "ValueError")
       ELSE Return("count", Count_v2(deck, cfg.name, cfg.type), deck, "")

\* zone.remove(name=, type=) of models_v2.py
CallRemove_v2 ==
    /\ prog = "Zone_v2" /\ pc = "call" /\ cfg.op = "remove"
    /\ IF RemoveInvalid_v2(cfg.name, cfg.type)
       THEN Return("remove", NoResult, deck, "ValueError")
       ELSE LET r == Remove_v2(deck, cfg.name, cfg.type)
            IN  Return("remove", r.card, r.cards, r.err)

\* zone.search_for(name=, type=, tags=, top_n=) of models_v2.py
CallSearchFor_v2 ==
    /\ prog = "Zone_v2" /\ pc = "call" /\ cfg.op = "search_for"
    /\ IF SearchForInvalid_v2(cfg.name, cfg.type, cfg.tags)
       THEN Return("search_for", NoResult, deck, "ValueError")
       ELSE LET r == SearchFor_v2(deck, cfg.name, cfg.type, cfg.tags,
                                  cfg.top_n)
            IN  Return("search_for", r.card, r.cards, r.err)

NextZone ==
    \/ CallCount
    \/ CallRemove
    \/ CallSearchFor
    \/ CallDrawN
    \/ CallBottomCards
    \/ CallTopCards
    \/ CallDrawNAfter
    \/ CallCount_v2
    \/ CallRemove_v2
    \/ CallSearchFor_v2

SpecZone == InitZone /\ [][NextZone]_vars

----------------------------------------------------------------------------
(* A zone of src/models.py over its life: it is constructed with the cards *)
(* cfg.cards, operations are called on it and then reset() is called,      *)
(* twice; before holds the cards of the zone when reset() is first called. *)

\* most cards a zone is constructed with, and most operations before reset
MaxResetZone == 2

MaxOps == 3

\* most cards the operations leave in the zone
MaxLive == 4

\* the constructions: Zone(cards) (reset without shuffle) and Deck(cards)
\* (reset with shuffle=True)
Constructions ==
    {[cards |-> z, shuffle |-> b] : z \in Zones_v1(MaxResetZone), b \in BOOLEAN}

InitReset ==
    /\ prog = "Reset"
    /\ cfg \in Constructions
    /\ deck = cfg.cards
    /\ hand = <<>>
    /\ territory = <<>>
    /\ discard = <<>>
    /\ pc = "live"
    /\ stack = <<>>
    /\ ret = ""
    /\ sim_number = 0
    /\ turn_number = 0
    /\ log_file = <<>>
    /\ n_logged = 0
    /\ err = ""
    /\ n_iter = 0
    /\ loop_bound = 0
    /\ before = <<>>
    /\ result = NoResult
    /\ output = NoOutput
    /\ artifact_slot_used_for_turn = FALSE
    /\ original_cards = OriginalCards(cfg.cards)
    /\ game_log = NoLogFile

\* an operation on the live zone leaves it holding cards
Operate(op, cards) ==
    /\ prog = "Reset"
    /\ pc = "live"
    /\ n_iter < MaxOps
    /\ Len(cards) <= MaxLive
    /\ deck' = cards
    /\ n_iter' = n_iter + 1
    /\ ret' = op
    /\ UNCHANGED <<prog, cfg, hand, territory, discard, pc, stack, sim_number,
                   turn_number, log_file, n_logged, err, loop_bound, before,
                   result, output, artifact_slot_used_for_turn,
                   original_cards, game_log>>

\* zone.add(card)
ZoneAdd == \E g \in Given_v1 : g # <<>> /\ Operate("add", Add(deck, g[1]))

\* zone.remove(card_type)
ZoneRemove ==
    \E t \in {"tutor", "non_lost_soul"} :
        Operate("remove", Remove(deck, t, "").cards)

\* zone.search_for(card_type, top_n)
ZoneSearchFor ==
    \E t \in {"tutor", "lost_soul"}, n \in {-1, 1} :
        Operate("search_for", SearchFor(deck, t, n, "").cards)

\* zone.shuffle()
ZoneShuffle == \E s \in Sample(deck) : Operate("shuffle", s)

\* deck.draw_n(n)
DeckDrawN == \E n \in 1..2 : Operate("draw_n", DrawN(deck, n).cards)

\* deck.bottom_cards(cards)
DeckBottomCards ==
    \E g \in Given_v1 : Operate("bottom_cards", BottomCards(deck, g))

\* deck.top_cards(cards)
DeckTopCards == \E g \in Given_v1 : Operate("top_cards", TopCards(deck, g))

\* zone.reset() / deck.reset(shuffle=True), the first call and the second
ZoneReset ==
    /\ prog = "Reset"
    /\ pc \in {"live", "reset"}
    /\ deck' \in (IF cfg.shuffle THEN Sample(Reset(original_cards, deck))
                  ELSE {Reset(original_cards, deck)})
    /\ before' = IF pc = "live" THEN deck ELSE before
    /\ pc' = IF pc = "live" THEN "reset" ELSE "reset_again"
    /\ UNCHANGED <<prog, cfg, hand, territory, discard, stack, ret,
                   sim_number, turn_number, log_file, n_logged, err, n_iter,
                   loop_bound, result, output, artifact_slot_used_for_turn,
                   original_cards, game_log>>

NextReset ==
    \/ ZoneAdd
    \/ ZoneRemove
    \/ ZoneSearchFor
    \/ ZoneShuffle
    \/ DeckDrawN
    \/ DeckBottomCards
    \/ DeckTopCards
    \/ ZoneReset

SpecReset == InitReset /\ [][NextReset]_vars

----------------------------------------------------------------------------
(* The construction of a Simulation (src/simulation.py lines 21-57) from   *)
(* any recipe, and determine_lost_souls_required (src/utils.py) on its     *)
(* own.                                                                    *)

\* the most tutors and the most cycler souls of a recipe
ManyTutors == 50

ManyCyclers == 8

\* the deck sizes determine_lost_souls_required is called with
MinDeckSize == 40

MaxDeckSize == 115

\* the recipes: deck sizes around the first two tiers
Recipes(tutors, cyclers) ==
    {[deck_size |-> d, n_cycler_souls |-> c, n_tutors |-> t,
      n_simulations |-> MaxSims, n_turns |-> MaxTurns, going_first |-> TRUE,
      hopper |-> h, virgin_birth |-> v, prosperity |-> p,
      four_drachma_coin |-> f, denarius |-> e] :
        d \in {DefaultDeckSize - 1, DefaultDeckSize, EightSoulsDeckSize - 1,
               EightSoulsDeckSize},
        c \in 0..cyclers, t \in {0, 1, tutors},
        h \in BOOLEAN, v \in BOOLEAN, p \in BOOLEAN, f \in BOOLEAN,
        e \in BOOLEAN}

InitConstruct ==
    /\ prog \in {"__init__", "determine_lost_souls_required"}
    /\ cfg \in (IF prog = "__init__" THEN Recipes(ManyTutors, ManyCyclers)
                ELSE {[deck_size |-> d] : d \in MinDeckSize..MaxDeckSize})
    /\ deck = <<>>
    /\ hand = <<>>
    /\ territory = <<>>
    /\ discard = <<>>
    /\ pc = "call"
    /\ stack = <<>>
    /\ ret = ""
    /\ sim_number = 0
    /\ turn_number = 0
    /\ log_file = <<>>
    /\ n_logged = 0
    /\ err = ""
    /\ n_iter = 0
    /\ loop_bound = 0
    /\ before = <<>>
    /\ result = NoResult
    /\ output = NoOutput
    /\ artifact_slot_used_for_turn = FALSE
    /\ original_cards = <<>>
    /\ game_log = NoLogFile

\* Simulation(...): line 48 raises for a deck size out of range; lines
\* 53-54 build the template and the Deck
Construct ==
    /\ prog = "__init__"
    /\ pc = "call"
    /\ IF determine_lost_souls_required(cfg.deck_size) = -1
       THEN /\ err' = "ValueError"
            /\ pc' = "crashed"
            /\ UNCHANGED <<deck, original_cards>>
       ELSE /\ deck' = generate_decklist(cfg)
            /\ original_cards' = OriginalCards(generate_decklist(cfg))
            /\ pc' = "returned"
            /\ err' = ""
    /\ ret' = "__init__"
    /\ UNCHANGED <<prog, cfg, hand, territory, discard, stack, sim_number,
                   turn_number, log_file, n_logged, n_iter, loop_bound, before,
                   result, output, artifact_slot_used_for_turn, game_log>>

\* determine_lost_souls_required(deck_size)
CallDetermineLostSoulsRequired ==
    /\ prog = "determine_lost_souls_required"
    /\ pc = "call"
    /\ IF determine_lost_souls_required(cfg.deck_size) = -1
       THEN err' = "ValueError" /\ result' = NoResult
       ELSE err' = "" /\ result' = determine_lost_souls_required(cfg.deck_size)
    /\ pc' = "returned"
    /\ ret' = "determine_lost_souls_required"
    /\ UNCHANGED <<prog, cfg, deck, hand, territory, discard, stack,
                   sim_number, turn_number, log_file, n_logged, n_iter,
                   loop_bound, before, output, artifact_slot_used_for_turn,
                   original_cards, game_log>>

NextConstruct ==
    \/ Construct
    \/ CallDetermineLostSoulsRequired

SpecConstruct == InitConstruct /\ [][NextConstruct]_vars

----------------------------------------------------------------------------
(* The scenario: a Simulation without cycler souls and without optional    *)
(* cards whose deck attribute is a Deck of the cards of ScenarioTemplate;  *)
(* reset_simulation_state() and _draw_cards(n_cards=8, resolve_stars=True) *)
(* are called on it, as simulate_game calls them at the start of a trial.  *)

ScenarioConfigs ==
    {[deck_size |-> Len(ScenarioTemplate), n_cycler_souls |-> 0,
      n_tutors |-> 1, n_simulations |-> 1, n_turns |-> 1, going_first |-> g,
      hopper |-> FALSE, virgin_birth |-> FALSE, prosperity |-> FALSE,
      four_drachma_coin |-> FALSE, denarius |-> FALSE] : g \in BOOLEAN}

InitScenario ==
    /\ prog = "Simulation"
    /\ cfg \in ScenarioConfigs
    /\ deck = ScenarioTemplate
    /\ hand = <<>>
    /\ territory = <<>>
    /\ discard = <<>>
    /\ pc = "reset"
    /\ stack = <<>>
    /\ ret = ""
    /\ sim_number = 0
    /\ turn_number = 0
    /\ log_file = <<>>
    /\ n_logged = 0
    /\ err = ""
    /\ n_iter = 0
    /\ loop_bound = 0
    /\ before = <<>>
    /\ result = None
    /\ output = NoOutput
    /\ artifact_slot_used_for_turn = FALSE
    /\ original_cards = OriginalCards(deck)
    /\ game_log = NoLogFile

NextScenario ==
    \/ ResetSimulationState
    \/ OpeningDraw
    \/ LostSoulStep
    \/ DrawCardsReturn

SpecScenario == InitScenario /\ [][NextScenario]_vars

----------------------------------------------------------------------------
(* _count_n_brigades_in_hand on small Hands.                               *)

\* most cards of the Hand
MaxBrigadeHand == 3

\* the cards of the Hands: both printings of Doubt, a card of every good
\* brigade, a card of every evil brigade, a card of one brigade and a card
\* of two
BrigadeKinds ==
    {Entry(1, "Doubt (LoC Plus)", "EE", <<"Pale Green">>, "Evil", {}),
     Entry(1, "Doubt (LoC)", "EE", <<"Pale Green">>, "Evil", {}),
     Entry(1, "Hero", "Hero", <<"Good Multi">>, "Good", {}),
     Entry(1, "Evil Character", "Evil Character", <<"Evil Multi">>, "Evil", {}),
     Entry(1, "Filler", "GE", <<"Blue">>, "Good", {}),
     Entry(1, SimonPeter, "Hero", <<"Teal", "Crimson">>, "Good", {})}

BrigadeHands(max) ==
    UNION {{[i \in 1..n |->
                Card_v2(i, k[i].name, k[i].type, k[i].brigade, k[i].alignment,
                        k[i].tags)] :
              k \in [1..n -> BrigadeKinds]} :
           n \in 0..max}

InitBrigades ==
    /\ prog = "_count_n_brigades_in_hand"
    /\ cfg \in SpectrographConfigs
    /\ hand \in BrigadeHands(MaxBrigadeHand)
    /\ deck = <<>>
    /\ territory = <<>>
    /\ discard = <<>>
    /\ pc = "call"
    /\ stack = <<>>
    /\ ret = ""
    /\ sim_number = 0
    /\ turn_number = 0
    /\ log_file = <<>>
    /\ n_logged = 0
    /\ err = ""
    /\ n_iter = 0
    /\ loop_bound = 0
    /\ before = <<>>
    /\ result = NoResult
    /\ output = NoOutput
    /\ artifact_slot_used_for_turn = FALSE
    /\ original_cards = <<>>
    /\ game_log = NoLogFile

\* self._count_n_brigades_in_hand()
CallCountNBrigadesInHand ==
    /\ prog = "_count_n_brigades_in_hand"
    /\ pc = "call"
    /\ result' = count_n_brigades_in_hand(hand)
    /\ pc' = "returned"
    /\ ret' = "_count_n_brigades_in_hand"
    /\ UNCHANGED <<prog, cfg, deck, hand, territory, discard, stack,
                   sim_number, turn_number, log_file, n_logged, err, n_iter,
                   loop_bound, before, output, artifact_slot_used_for_turn,
                   original_cards, game_log>>

NextBrigades == CallCountNBrigadesInHand

SpecBrigades == InitBrigades /\ [][NextBrigades]_vars

----------------------------------------------------------------------------
(* Claims about Simulation.                                                *)

\* the number of cards of the template
TemplateSize == Len(generate_decklist(cfg))

\* the points at which a trial is observed: after the opening hand is
\* resolved and at the end of every turn
Observed == pc \in {"turn", "reset", "write", "done"}

\* C1: in Simulation, after the opening hand is resolved and at the end of
\* every turn, |Deck| + |Hand| + |Territory| + |Discard| is the size of the
\* template, in every configuration (stated for the configurations without
\* The Virgin Birth, where _draw_cards is the only code that draws)
C1_DrawConservation ==
    (prog = "Simulation" /\ ~cfg.virgin_birth /\ Observed) =>
        Len(deck) + Len(hand) + Len(territory) + Len(discard) = TemplateSize

\* a step of the lost-soul loop of Simulation that completes an iteration
LoopIteration ==
    prog = "Simulation" /\ pc = "loop" /\ pc' = "loop" /\ n_iter' = n_iter + 1

\* the lost soul the iteration plays
PlayedSoul == Remove(hand, "lost_soul", "").card

\* the Hand and the Deck after the lost soul has left the Hand and its own
\* replacement card has been drawn
HandAfterReplacement ==
    Remove(hand, "lost_soul", "").cards
        \o (IF deck = <<>> THEN <<>> ELSE <<Head(deck)>>)

DeckAfterReplacement == IF deck = <<>> THEN <<>> ELSE Tail(deck)

\* the Hand holds a macguffin or a tutor
HoldsGoal(cards) ==
    \E i \in 1..Len(cards) : cards[i].card_type \in {"macguffin", "tutor"}

\* the virgin_birth placeholder is among cards
HoldsVirginBirth(cards) ==
    \E i \in 1..Len(cards) : cards[i].subtype = "virgin_birth"

\* C5 as stated: with virgin_birth enabled the Hand of a Simulation never
\* contains the virgin_birth card
C5_HandNeverHoldsVirginBirth ==
    (prog = "Simulation" /\ cfg.virgin_birth) => ~HoldsVirginBirth(hand)

\* C5 amended: the draws made with resolve_stars=True (the opening 8 and
\* the 3 of a turn) add to the Hand a batch in which the placeholder has
\* been replaced: the batch has the size of the draw, holds no virgin_birth
\* card, and a placeholder that was drawn is the bottom card of the Deck
C5_StarDrawsReplaceVirginBirth ==
    [][(/\ prog = "Simulation"
        /\ cfg.virgin_birth
        /\ pc \in {"opening", "turn"}
        /\ pc' = "loop")
       => LET n     == IF pc = "opening" THEN OpeningHandSize
                       ELSE TurnDrawSize
              drawn == SubSeq(deck, 1, n)
              batch == SubSeq(hand', Len(hand) + 1, Len(hand'))
          IN  /\ SubSeq(hand', 1, Len(hand)) = hand
              /\ Len(batch) = n
              /\ ~HoldsVirginBirth(batch)
              /\ \A i \in 1..n :
                     IF drawn[i].subtype = "virgin_birth"
                     THEN /\ deck'[Len(deck')] = drawn[i]
                          /\ batch[i] \in Range(SubSeq(deck, n + 1, n + 6))
                     ELSE batch[i] = drawn[i]]_vars

\* C5 witness: the opening draw has replaced the placeholder, which is now
\* the bottom card of the Deck
C5_Witness ==
    /\ prog = "Simulation"
    /\ cfg.virgin_birth
    /\ pc = "loop"
    /\ ret = "open"
    /\ n_iter = 0
    /\ Len(hand) = OpeningHandSize
    /\ deck[Len(deck)].subtype = "virgin_birth"

\* C10: when Simulation plays a cycler lost soul, after the replacement
\* draw: a Hand without macguffin and tutor gives exactly one of its cards to
\* the bottom of the Deck and then receives exactly the top card of the
\* Deck; a Hand with a macguffin or a tutor is left as it is
C10_CyclerMovesOneCard ==
    [][(LoopIteration /\ PlayedSoul.subtype = "cycler")
       => LET h == HandAfterReplacement
              d == DeckAfterReplacement
          IN  IF HoldsGoal(h)
              THEN hand' = h /\ deck' = d
              ELSE \E i \in 1..Len(h) :
                      /\ hand' = RemoveAt(h, i) \o <<Head(d \o <<h[i]>>)>>
                      /\ deck' = Tail(d \o <<h[i]>>)]_vars

----------------------------------------------------------------------------
(* Claims about SpectrographSimulation and about the two simulations.      *)

\* the cards of the deck file
Template_v2 == load_decklist(mapped_main_deck_list, 1)

\* the number of places card has in the zones
Occurrences(card) ==
    Cardinality({i \in 1..Len(deck) : deck[i] = card})
        + Cardinality({i \in 1..Len(hand) : hand[i] = card})
        + Cardinality({i \in 1..Len(territory) : territory[i] = card})
        + Cardinality({i \in 1..Len(discard) : discard[i] = card})

\* a card with the given name, or with the given tag, is in cards
HoldsName(cards, name) ==
    \E i \in 1..Len(cards) : cards[i] # None /\ cards[i].name = name

HoldsTag(cards, tag) ==
    \E i \in 1..Len(cards) : cards[i] # None /\ tag \in cards[i].tags

\* C2: in SpectrographSimulation every card of the template is in exactly
\* one of Deck, Hand, Territory and Discard after every step, and once
\* _play_denarius has found an emperor the emperor and the Denarius are in
\* Territory
C2_EveryCardInOneZone ==
    (prog = "SpectrographSimulation" /\ pc # "crashed") =>
        /\ \A i \in 1..Len(Template_v2) : Occurrences(Template_v2[i]) = 1
        /\ output.denarius_draw =>
               /\ HoldsTag(territory, "is_emperor")
               /\ HoldsName(territory, Denarius)

\* no card of cards is a lost soul
NoLostSoul(cards) == \A i \in 1..Len(cards) : ~IsLostSoul(cards[i])

\* the points a simulation is at when _draw_cards has returned: before and
\* between the plays of a turn
AfterDrawCards ==
    {"turn", "play_coin", "play_denarius", "macguffin", "matthew",
     "take_solitaire_turn", "solitaire"}

\* C3: whenever _draw_cards has returned, in Simulation and in
\* SpectrographSimulation, the Hand holds no lost soul, so _play_macguffin
\* and the plays of the solitaire turn find the Hand stable, on turn 1 when
\* going first too
C3_StableHand == pc \in AfterDrawCards => NoLostSoul(hand)

\* C3 witness: Simulation is about to play the macguffin on turn 1, going
\* first, after the opening hand put lost souls in play
C3_Witness ==
    /\ prog = "Simulation"
    /\ pc = "macguffin"
    /\ cfg.going_first
    /\ turn_number = 1
    /\ n_iter >= 2
    /\ ~NoLostSoul(territory)

\* C4: the lost-soul loop of _draw_cards never performs more iterations
\* than |Hand| + |Deck| held when it started (every step of the loop is one
\* more iteration, so the loop ends)
C4_LoopBound == n_iter <= loop_bound

\* C4 witness: in SpectrographSimulation the loop has run the cycler, the
\* prosperity, the darkness and the lawless resolutions
C4_Witness ==
    /\ prog = "SpectrographSimulation"
    /\ pc = "loop"
    /\ n_iter >= 4
    /\ \A n \in CYCLER_SOULS \cup DARKNESS \cup LAWLESS \cup {Prosperity_v2} :
           HoldsName(territory, n)

\* a step of the lost-soul loop of SpectrographSimulation that completes an
\* iteration
LoopIteration_v2 ==
    /\ prog = "SpectrographSimulation"
    /\ pc = "loop"
    /\ pc' = "loop"
    /\ n_iter' = n_iter + 1

\* the lost soul the iteration plays, and the Hand and the Deck after the
\* lost soul has left the Hand and its replacement card has been drawn
PlayedSoul_v2 == Remove_v2(hand, "", "Lost Soul").card

HandAfterReplacement_v2 ==
    Remove_v2(hand, "", "Lost Soul").cards
        \o (IF deck = <<>> THEN <<>> ELSE <<Head(deck)>>)

\* the first two cards of cards, or all of them, and the cards below them
TopTwo(cards) == SubSeq(cards, 1, Min(2, Len(cards)))

BelowTopTwo(cards) == SubSeq(cards, Len(TopTwo(cards)) + 1, Len(cards))

\* exactly one card of h has moved to Discard and two cards of d to the Hand
DiscardsOneDrawsTwo(h, d) ==
    \E i \in 1..Len(h) :
        /\ discard' = Append(discard, h[i])
        /\ hand' = RemoveAt(h, i) \o TopTwo(d)
        /\ deck' = BelowTopTwo(d)

\* C9 as stated: whenever the prosperity lost soul is played, whatever the
\* Hand holds, exactly one card moves from Hand to Discard and two cards are
\* drawn, in Simulation and in SpectrographSimulation
C9_ProsperityUnconditional ==
    [][/\ (LoopIteration /\ PlayedSoul.subtype = "prosperity")
           => DiscardsOneDrawsTwo(HandAfterReplacement, DeckAfterReplacement)
       /\ (LoopIteration_v2 /\ PlayedSoul_v2.name = Prosperity_v2)
           => DiscardsOneDrawsTwo(HandAfterReplacement_v2,
                                  DeckAfterReplacement)]_vars

\* the positions of the cards of h the prosperity can discard: in
\* Simulation the cards of type non_lost_soul, in SpectrographSimulation
\* the cards that are not lost souls
Discardable(h) ==
    {i \in 1..Len(h) :
        IF prog = "Simulation" THEN h[i].card_type = "non_lost_soul"
        ELSE h[i].type # "Lost Soul"}

\* the card the policy picks: the first discardable card, or with
\* cycler_logic "optimized" the first of those with the most brigades
PolicyPick(h) ==
    LET c == Discardable(h)
        n(i) == count_actual_brigades(h[i].brigade)
    IN  IF prog = "SpectrographSimulation" /\ cfg.cycler_logic = "optimized"
        THEN CHOOSE i \in c : \A j \in c : n(j) < n(i) \/ (n(j) = n(i) /\ i <= j)
        ELSE CHOOSE i \in c : \A j \in c : i <= j

\* what the prosperity does to the Hand h and the Deck d when it acts: the
\* picked card moves to Discard and two cards are drawn; with no
\* discardable card no card leaves the Hand (SpectrographSimulation then
\* adds None to Discard) and two cards are drawn
ProsperityActs(h, d) ==
    /\ deck' = BelowTopTwo(d)
    /\ IF Discardable(h) # {}
       THEN /\ discard' = Append(discard, h[PolicyPick(h)])
            /\ hand' = RemoveAt(h, PolicyPick(h)) \o TopTwo(d)
       ELSE /\ hand' = h \o TopTwo(d)
            /\ discard' = IF prog = "Simulation" THEN discard
                          ELSE Append(discard, None)

\* C9 amended: in SpectrographSimulation the prosperity lost soul always
\* acts; in Simulation it acts only on a Hand without macguffin and tutor
\* and otherwise moves no card
C9_ProsperityBySimulation ==
    [][/\ (LoopIteration /\ PlayedSoul.subtype = "prosperity")
           => IF HoldsGoal(HandAfterReplacement)
              THEN /\ hand' = HandAfterReplacement
                   /\ deck' = DeckAfterReplacement
                   /\ discard' = discard
              ELSE ProsperityActs(HandAfterReplacement, DeckAfterReplacement)
       /\ (LoopIteration_v2 /\ PlayedSoul_v2.name = Prosperity_v2)
           => ProsperityActs(HandAfterReplacement_v2, DeckAfterReplacement)]_vars

\* C9 witness: Simulation has played the prosperity lost soul with a tutor
\* in the Hand and has discarded nothing
C9_Witness ==
    /\ prog = "Simulation"
    /\ pc = "loop"
    /\ territory # <<>>
    /\ territory[Len(territory)].subtype = "prosperity"
    /\ HoldsGoal(hand)
    /\ discard = <<>>

\* the cards _resolve_lawless reveals when the iteration plays the lawless
\* lost soul: the top six of the Deck after the replacement draw
RevealedSix ==
    SubSeq(DeckAfterReplacement, 1,
           Min(VirginBirthWindow, Len(DeckAfterReplacement)))

\* the iteration plays the lawless lost soul
LawlessIteration == LoopIteration_v2 /\ PlayedSoul_v2.name \in LAWLESS

\* C11: after _resolve_lawless every lost soul that was among the revealed
\* cards is in Territory and none of them is back in the Deck, whatever the
\* arrangement of the revealed cards
C11_RevealedSoulsToTerritory ==
    [][LawlessIteration =>
          \A i \in 1..Len(RevealedSix) :
              IsLostSoul(RevealedSix[i]) =>
                  /\ \E k \in 1..Len(territory') : territory'[k] = RevealedSix[i]
                  /\ \A k \in 1..Len(deck') : deck'[k] # RevealedSix[i]]_vars

\* _resolve_lawless has been called on the Deck before and has returned
ResolvedLawless ==
    prog = "_resolve_lawless" /\ pc = "returned" /\ err = ""

\* the cards the call revealed: the top six of the Deck, or all of them
RevealedByLawless == SubSeq(before, 1, Min(VirginBirthWindow, Len(before)))

\* the positions of the revealed cards that are not lost souls and have
\* alignment Evil
RevealedEvil ==
    {i \in 1..Len(RevealedByLawless) :
        /\ ~IsLostSoul(RevealedByLawless[i])
        /\ RevealedByLawless[i].alignment = "Evil"}

\* the position of the first of them, 0 when there is none
FirstRevealedEvil ==
    IF RevealedEvil = {} THEN 0
    ELSE CHOOSE i \in RevealedEvil : \A j \in RevealedEvil : i <= j

\* the revealed cards that are not lost souls, the first Evil one left out,
\* in their revealed order
RevealedRest ==
    LET keep == {i \in 1..Len(RevealedByLawless) :
                    /\ ~IsLostSoul(RevealedByLawless[i])
                    /\ i # FirstRevealedEvil}
        nth(k) == CHOOSE i \in keep :
                      Cardinality({j \in keep : j < i}) = k - 1
    IN  [k \in 1..Cardinality(keep) |-> RevealedByLawless[nth(k)]]

\* the revealed cards that are in cards, in the order of cards
RevealedIn(cards) ==
    SelectSeq(cards, LAMBDA c : c \in Range(RevealedByLawless))

\* C12: _resolve_lawless takes into the Hand the first revealed card that
\* is not a lost soul and has alignment Evil, whenever there is one, and no
\* other revealed card; all the other revealed cards that are not lost souls
\* are at the bottom of the Deck in their revealed order
C12_FirstEvilToHand ==
    ResolvedLawless =>
        /\ RevealedIn(hand)
               = (IF FirstRevealedEvil = 0 THEN <<>>
                  ELSE <<RevealedByLawless[FirstRevealedEvil]>>)
        /\ SelectSeq(RevealedIn(deck), LAMBDA c : ~IsLostSoul(c))
               = RevealedRest
        /\ Len(deck) >= Len(RevealedRest)
        /\ \A k \in 1..Len(RevealedRest) :
               deck[Len(deck) - Len(RevealedRest) + k] \in Range(RevealedByLawless)

----------------------------------------------------------------------------
(* Claims about Deck.resolve_the_virgin_birth (src/models.py).             *)

\* resolve_the_virgin_birth has been called on the Deck before
ResolvedVirginBirth ==
    prog = "Deck" /\ pc = "returned" /\ ret = "resolve_the_virgin_birth"

\* the cards the call revealed: the top six of the Deck, or all of them
Revealed == SubSeq(before, 1, Min(6, Len(before)))

\* C6: resolve_the_virgin_birth never fails: on every Deck, down to an
\* empty one, it completes without raising and returns a card
C6_NeverFails ==
    ResolvedVirginBirth => (err = "" /\ result # None)

\* the tier of a card: 1 macguffin, 2 tutor, 3 peter, 4 coin, 5 lost
\* soul, 6 none
TierOf(card) ==
    IF "macguffin" \in {card.card_type, card.subtype} THEN 1
    ELSE IF "tutor" \in {card.card_type, card.subtype} THEN 2
    ELSE IF "peter" \in {card.card_type, card.subtype} THEN 3
    ELSE IF "coin" \in {card.card_type, card.subtype} THEN 4
    ELSE IF "lost_soul" \in {card.card_type, card.subtype} THEN 5
    ELSE 6

\* C7: the card returned is a revealed card, no revealed card has a higher
\* tier, no revealed card of the same tier is above it, and it is the first
\* revealed card when no revealed card has a tier
C7_PrioritySelection ==
    (ResolvedVirginBirth /\ err = "") =>
        \E i \in 1..Len(Revealed) :
            /\ result = Revealed[i]
            /\ \A j \in 1..Len(Revealed) :
                   TierOf(Revealed[j]) >= TierOf(result)
            /\ \A j \in 1..(i - 1) : TierOf(Revealed[j]) > TierOf(result)
            /\ TierOf(result) = 6 => i = 1

\* C7 witness: a tutor was revealed above the macguffin that was returned
C7_Witness ==
    /\ ResolvedVirginBirth
    /\ err = ""
    /\ result.card_type = "macguffin"
    /\ \E i, j \in 1..Len(Revealed) :
           i < j /\ Revealed[i].card_type = "tutor" /\ Revealed[j] = result

\* C8: after resolve_the_virgin_birth on a non-empty Deck the placeholder
\* is the bottom card, the revealed cards that were not selected are on top
\* in their order, the cards below the window follow in their order, the
\* selected card is not in the Deck and the Deck has its size of before
C8_DeckAfterVirginBirth ==
    (ResolvedVirginBirth /\ before # <<>>) =>
        /\ err = ""
        /\ Len(deck) = Len(before)
        /\ deck[Len(deck)] = VirginBirthCard
        /\ \A i \in 1..Len(deck) : deck[i] # result
        /\ \E i \in 1..Len(Revealed) :
               /\ result = Revealed[i]
               /\ SubSeq(deck, 1, Len(deck) - 1)
                      = RemoveAt(Revealed, i)
                          \o SubSeq(before, Len(Revealed) + 1, Len(before))

----------------------------------------------------------------------------
(* Claims about the operations of Zone and Deck.                           *)

\* the operation op of models.py (p = "Zone") or of models_v2.py
\* (p = "Zone_v2") was called on the zone before and has returned or raised
Returned(p, op) == prog = p /\ pc = "returned" /\ ret = op

\* the card satisfies every criterion the call of models.py supplies
AllCriteria(card) ==
    /\ cfg.card_type # "" => card.card_type = cfg.card_type
    /\ cfg.subtype # "" => card.subtype = cfg.subtype

\* the card satisfies a criterion the call of models.py supplies
AnyCriterion(card) ==
    \/ cfg.card_type # "" /\ card.card_type = cfg.card_type
    \/ cfg.subtype # "" /\ card.subtype = cfg.subtype

\* the card satisfies every criterion the call of models_v2.py supplies
AllCriteria_v2(card) ==
    /\ cfg.name # "" => card.name = cfg.name
    /\ cfg.type # "" => card.type = cfg.type

\* the call passes a special selector of models_v2.py instead of a type
SpecialSelector == cfg.type \in {"RandomNonLostSoul", "MostBrigades"}

\* the call took the first card of the zone at one of the positions hits,
\* and left the other cards in their order; with no such position it
\* returned None and left the zone as it was
TookFirstOf(hits) ==
    IF hits = {} THEN result = None /\ deck = before
    ELSE \E i \in hits :
            /\ \A j \in hits : i <= j
            /\ result = before[i]
            /\ deck = RemoveAt(before, i)
            /\ \A k \in 1..Len(deck) : deck[k] # result

C14_EveryNonLostSoulPossible ==
    (prog = "Zone_v2" /\ pc = "call" /\ cfg.op = "remove"
        /\ cfg.name = "" /\ cfg.type = "RandomNonLostSoul") =>
        \A i \in 1..Len(deck) :
            deck[i].type # "Lost Soul" =>
                ENABLED (CallRemove_v2 /\ result' = deck[i])

\* search_for was called without top_n
SearchedWholeZone == Returned("Zone", "search_for") /\ cfg.top_n = -1

\* C15 as stated: search_for without top_n does what remove does, for
\* every zone and every combination of criteria: it removes and returns the
\* same card, or both report not found
C15_SearchForIsRemove ==
    SearchedWholeZone =>
        /\ err = ""
        /\ result = Remove(before, cfg.card_type, cfg.subtype).card
        /\ deck = Remove(before, cfg.card_type, cfg.subtype).cards

\* C15 amended: search_for without top_n does what remove does when exactly
\* one criterion is supplied; with a card_type and a subtype it takes the
\* first card that matches either (remove: the first that matches both),
\* and with no criterion it raises ValueError (remove: takes the first card)
C15_SearchForIsRemoveOnOneCriterion ==
    SearchedWholeZone =>
        IF cfg.card_type = "" /\ cfg.subtype = ""
        THEN /\ err = "ValueError" /\ deck = before
             /\ Remove(before, "", "").cards = SubSeq(before, 2, Len(before))
        ELSE IF cfg.card_type = "" \/ cfg.subtype = ""
        THEN /\ err = ""
             /\ result = Remove(before, cfg.card_type, cfg.subtype).card
             /\ deck = Remove(before, cfg.card_type, cfg.subtype).cards
        ELSE /\ err = ""
             /\ TookFirstOf({i \in 1..Len(before) : AnyCriterion(before[i])})
             /\ LET both == {i \in 1..Len(before) : AllCriteria(before[i])}
                    r    == Remove(before, cfg.card_type, cfg.subtype)
                IN  IF both = {} THEN r.card = None
                    ELSE \E i \in both : /\ \A j \in both : i <= j
                                         /\ r.card = before[i]

\* C15 witness: search_for(card_type="tutor", subtype="peter") took a card
\* from a zone remove would have found nothing in
C15_Witness ==
    /\ SearchedWholeZone
    /\ cfg.card_type = "tutor" /\ cfg.subtype = "peter"
    /\ result # None
    /\ Remove(before, "tutor", "peter").card = None
    /\ Len(before) >= 2

\* C16: search_for with top_n = N considers only the first N cards: it
\* removes and returns the first of them that matches; when the only
\* matching cards are at index N or beyond it returns None and leaves the
\* zone unchanged; without top_n it searches the whole zone; the returned
\* card is no longer in the zone and every other card remains
C16_SearchForTopN ==
    (Returned("Zone", "search_for")
        /\ ~SearchForInvalid(cfg.card_type, cfg.subtype)) =>
        LET n == IF cfg.top_n = -1 THEN Len(before) ELSE cfg.top_n
        IN  /\ err = ""
            /\ TookFirstOf({i \in 1..Len(before) :
                               i <= n /\ AnyCriterion(before[i])})

\* C16 witness: search_for(card_type="tutor", top_n=2) on a zone whose only
\* tutor is the third card returned None and left the zone as it was
C16_Witness ==
    /\ Returned("Zone", "search_for")
    /\ cfg.card_type = "tutor" /\ cfg.subtype = "" /\ cfg.top_n = 2
    /\ Len(before) = 4
    /\ before[3].card_type = "tutor"
    /\ \A i \in {1, 2, 4} : before[i].card_type # "tutor"
    /\ result = None
    /\ deck = before

\* C17: Zone.count returns the number of cards that match all the supplied
\* criteria, and a call that supplies no criterion fails with ValueError
\* instead of returning a number, in models.py and in models_v2.py
C17_CountAllCriteria ==
    /\ Returned("Zone", "count") =>
           IF cfg.card_type = "" /\ cfg.subtype = ""
           THEN err = "ValueError"
           ELSE /\ err = ""
                /\ result = Cardinality({i \in 1..Len(before) :
                                            AllCriteria(before[i])})
    /\ Returned("Zone_v2", "count") =>
           IF cfg.name = "" /\ cfg.type = ""
           THEN err = "ValueError"
           ELSE /\ err = ""
                /\ result = Cardinality({i \in 1..Len(before) :
                                            AllCriteria_v2(before[i])})

\* C18: draw_n(k), k >= 1, returns the first min(k, |Deck|) cards in deck
\* order, removes exactly those and leaves the others in their order; on a
\* Deck of fewer than k cards, an empty one too, it returns all the cards,
\* leaves the Deck empty and does not raise
C18_DrawN ==
    (Returned("Zone", "draw_n") /\ cfg.n >= 1) =>
        /\ err = ""
        /\ Len(result) = Min(cfg.n, Len(before))
        /\ \A i \in 1..Len(result) : result[i] = before[i]
        /\ Len(deck) = Len(before) - Len(result)
        /\ \A i \in 1..Len(deck) : deck[i] = before[Len(result) + i]
        /\ Len(before) < cfg.n => (result = before /\ deck = <<>>)

\* C18 witness: draw_n(5) on a Deck of three cards returned the three
\* cards and left the Deck empty
C18_Witness ==
    /\ Returned("Zone", "draw_n")
    /\ cfg.n = 5
    /\ Len(before) = 3
    /\ err = ""
    /\ result = before
    /\ deck = <<>>

\* the sequences s and t hold the same cards the same number of times
SameBag(s, t) ==
    /\ Len(s) = Len(t)
    /\ \A c \in Range(s) \cup Range(t) :
           Cardinality({i \in 1..Len(s) : s[i] = c})
               = Cardinality({i \in 1..Len(t) : t[i] = c})

\* C19 as stated: bottom_cards(cards) with random_order false appends the
\* cards after the cards of the Deck in the given order, and bottom_cards
\* followed by draw_n(|Deck|) returns, as a multiset, the cards that were
\* in the Deck plus the cards given, with random_order true too
C19_BottomThenDrawAll ==
    (prog = "Zone" /\ ret = "bottom_cards") =>
        /\ (pc = "cycle" /\ ~cfg.random_order) => deck = before \o cfg.cards
        /\ pc = "returned" =>
               /\ err = ""
               /\ SameBag(result, before \o cfg.cards)

\* C19 amended: the same when the Deck then holds a card; on an empty Deck
\* given no card the draw_n(0) that follows raises ValueError
C19_BottomThenDrawAllOfNonEmpty ==
    (prog = "Zone" /\ ret = "bottom_cards") =>
        /\ (pc = "cycle" /\ ~cfg.random_order) => deck = before \o cfg.cards
        /\ pc = "returned" =>
               IF before \o cfg.cards = <<>>
               THEN err = "ValueError" /\ deck = <<>>
               ELSE /\ err = ""
                    /\ SameBag(result, before \o cfg.cards)
                    /\ deck = <<>>

\* C19 witness: bottom_cards with random_order true put the two given
\* cards under a Deck of two in the other order, and draw_n(4) returned the
\* four cards
C19_Witness ==
    /\ Returned("Zone", "bottom_cards")
    /\ cfg.random_order
    /\ Len(before) = 2
    /\ Len(cfg.cards) = 2
    /\ err = ""
    /\ result = before \o <<cfg.cards[2], cfg.cards[1]>>

\* C20 as stated: top_cards(cards) followed by draw_n(len(cards)) returns
\* the given cards in the given order and leaves the Deck what it was
\* before top_cards, in models.py and in models_v2.py
C20_TopThenDraw ==
    (prog \in {"Zone", "Zone_v2"} /\ pc = "returned" /\ ret = "top_cards") =>
        /\ err = ""
        /\ result = cfg.cards
        /\ deck = before

\* C20 amended: the same when at least one card is given; given no card
\* the draw_n(0) that follows raises ValueError and the Deck is what it was
C20_TopThenDrawOfGiven ==
    (prog \in {"Zone", "Zone_v2"} /\ pc = "returned" /\ ret = "top_cards") =>
        IF cfg.cards = <<>>
        THEN err = "ValueError" /\ deck = before
        ELSE /\ err = ""
             /\ result = cfg.cards
             /\ \A i \in 1..Len(cfg.cards) : result[i] = cfg.cards[i]
             /\ deck = before

\* C20 witness: models_v2.py drew the two given cards, in the given order,
\* from the top of a Deck that held three cards before
C20_Witness ==
    /\ Returned("Zone_v2", "top_cards")
    /\ Len(cfg.cards) = 2
    /\ Len(before) = 3
    /\ err = ""
    /\ result = cfg.cards
    /\ deck = before

----------------------------------------------------------------------------
(* Claims about reset.                                                     *)

\* C21: whatever operations were called on a zone, the template is the     
\* card list the zone was constructed with (none for an empty list), and
\* after reset(), and after a second reset(), the zone holds the cards of
\* that list, each as many times as the list does.
C21_ResetRestoresTemplate ==
    prog = "Reset" =>
        /\ original_cards = OriginalCards(cfg.cards)
        /\ pc \in {"reset", "reset_again"} => SameBag(deck, cfg.cards)

\* reset() was called twice on a zone constructed with cards, after
\* MaxOps operations that left it holding other cards
C21_Witness ==
    /\ prog = "Reset"
    /\ pc = "reset_again"
    /\ n_iter = MaxOps
    /\ cfg.cards # <<>>
    /\ ~SameBag(before, cfg.cards)

\* C22: at the start of every trial, after reset_simulation_state, the Deck
\* holds the cards of the template, each once, and the Hand, the Territory
\* and the Discard are empty, whatever the trial before left in them.
C22_TrialStartsFromTemplate ==
    pc = "opening" =>
        /\ SameBag(deck, IF prog = "Simulation" THEN generate_decklist(cfg)
                         ELSE Template_v2)
        /\ hand = <<>>
        /\ territory = <<>>
        /\ discard = <<>>

\* a trial starts after a trial that was played to its end
C22_Witness ==
    /\ prog \in {"Simulation", "SpectrographSimulation"}
    /\ pc = "opening"
    /\ sim_number > 0
    /\ n_logged > 0

\* the cards of a zone that have the card type
OfType(cards, card_type) ==
    {c \in Range(cards) : c # None /\ c.card_type = card_type}

\* C23: _play_macguffin moves the macguffin from the Hand to the Territory
\* and nothing else when the Hand holds it; otherwise, when the Hand holds a
\* tutor and the Deck the macguffin, it moves one tutor from the Hand and
\* the macguffin from the Deck to the Territory and nothing else; in every
\* other case it moves no card.
C23_PlayMacguffin ==
    [][(prog = "Simulation" /\ pc = "macguffin") =>
          IF OfType(hand, "macguffin") # {}
          THEN \E m \in OfType(hand, "macguffin") :
                  /\ SameBag(hand' \o <<m>>, hand)
                  /\ SameBag(territory', territory \o <<m>>)
                  /\ deck' = deck /\ discard' = discard
          ELSE IF OfType(hand, "tutor") # {} /\ OfType(deck, "macguffin") # {}
          THEN \E t \in OfType(hand, "tutor"), m \in OfType(deck, "macguffin") :
                  /\ SameBag(hand' \o <<t>>, hand)
                  /\ SameBag(deck' \o <<m>>, deck)
                  /\ SameBag(territory', territory \o <<t, m>>)
                  /\ discard' = discard
          ELSE /\ hand' = hand /\ deck' = deck
               /\ territory' = territory /\ discard' = discard]_vars

\* C24: the first step of _take_a_turn plays no card; on turn 1 of a trial
\* going first it draws no card either and goes on to the plays; on every
\* other turn it draws the top 3 cards of the Deck (all of them when the
\* Deck holds fewer) into the Hand before the plays, unless resolving the
\* drawn cards raises.
C24_DrawBeforePlay ==
    [][(prog = "Simulation" /\ pc = "turn") =>
          /\ territory' = territory
          /\ discard' = discard
          /\ IF cfg.going_first /\ turn_number = 1
             THEN deck' = deck /\ hand' = hand /\ pc' = "play_coin"
             ELSE \/ pc' = "crashed" /\ err' # ""
                  \/ /\ pc' = "loop"
                     /\ Len(hand') = Len(hand) + Min(TurnDrawSize, Len(deck))
                     /\ SubSeq(hand', 1, Len(hand)) = hand
                     /\ \A i \in (Len(hand) + 1)..Len(hand') :
                            hand'[i] \in Range(deck)]_vars

\* the draw of turn 1 of a trial that is not going first, and of a later
\* turn of a trial that is: 3 cards were added to the Hand
C24_Witness ==
    /\ prog = "Simulation"
    /\ pc = "loop" /\ ret = "take_a_turn" /\ n_iter = 0
    /\ Len(hand) >= OpeningHandSize + TurnDrawSize
    /\ \/ turn_number = 1 /\ ~cfg.going_first
       \/ turn_number > 1 /\ cfg.going_first

\* the records buffered so far: all_logs and, until it is added to
\* all_logs, the log_file of the trial
Buffered ==
    n_logged + (IF pc \in {"reset", "write", "done"} THEN 0 ELSE Len(log_file))

\* C25: simulate_game runs the trials in order, each one as the reset, the
\* opening draw of 8 cards and the turns 1..n_turns; every turn adds one
\* record to the buffer; the csv file gets its rows in one write, which
\* follows the last turn of the last trial and writes n_simulations *
\* n_turns rows, and no row before it.
C25_TrialsThenOneWrite ==
    [][prog = "Simulation" =>
          /\ pc = "reset" =>
                 /\ pc' = "opening"
                 /\ sim_number < cfg.n_simulations
                 /\ n_logged = sim_number * cfg.n_turns
          /\ pc = "opening" =>
                 \/ pc' = "crashed"
                 \/ /\ pc' = "loop" /\ ret' = "open"
                    /\ Len(hand') = Min(OpeningHandSize, Len(deck))
          /\ (pc = "loop" /\ pc' = "turn") => ret = "open" /\ turn_number' = 1
          /\ turn_number' # turn_number =>
                 \/ pc' = "opening" /\ turn_number' = 0
                 \/ pc' = "turn" /\ turn_number' = turn_number + 1
                               /\ turn_number' <= cfg.n_turns
          /\ Buffered' # Buffered =>
                 /\ pc = "macguffin"
                 /\ Buffered' = Buffered + 1
                 /\ Buffered' = sim_number * cfg.n_turns + turn_number
          /\ sim_number' # sim_number =>
                 /\ pc = "macguffin" /\ turn_number = cfg.n_turns
                 /\ sim_number' = sim_number + 1
          /\ game_log' # game_log =>
                 /\ pc = "write" /\ pc' = "done"
                 /\ sim_number = cfg.n_simulations
                 /\ game_log.rows = <<>>
                 /\ Len(game_log'.rows) = cfg.n_simulations * cfg.n_turns
          /\ pc' = "write" => Buffered' = cfg.n_simulations * cfg.n_turns
          /\ pc' = "done" => pc = "write"]_vars

\* the run is over: every record of every trial is in the csv file
C25_Witness ==
    /\ prog = "Simulation"
    /\ pc = "done"
    /\ sim_number = cfg.n_simulations
    /\ cfg.n_simulations > 1 /\ cfg.n_turns > 1
    /\ Len(game_log.rows) = cfg.n_simulations * cfg.n_turns

\* C26: every row of the csv file was written under the fieldnames of the
\* header line, the same names in the same order.
C26_RowsUnderHeader ==
    \A i \in 1..Len(game_log.rows) : game_log.rows[i] = game_log.header

----------------------------------------------------------------------------
(* Claims about the construction.                                          *)

\* C27: a Simulation that was constructed without an error has a template
\* of exactly deck_size cards.
C27_TemplateOfDeckSize ==
    (prog = "__init__" /\ pc = "returned") => Len(deck) = cfg.deck_size

\* C28: determine_lost_souls_required(deck_size) returns
\* 7 + floor((deck_size - 50) / 7) for a deck_size from 50 to 105 and raises
\* ValueError for every other deck_size.
C28_LostSoulsRequired ==
    (prog = "determine_lost_souls_required" /\ pc = "returned") =>
        IF 50 <= cfg.deck_size /\ cfg.deck_size <= 105
        THEN err = "" /\ result = 7 + (cfg.deck_size - 50) \div 7
        ELSE err = "ValueError"

\* the call returned 14 for the largest deck size of the range
C28_Witness ==
    /\ prog = "determine_lost_souls_required"
    /\ pc = "returned"
    /\ cfg.deck_size = 105
    /\ err = ""
    /\ result = 14

----------------------------------------------------------------------------
(* Claims about the selectors and the error cases of the zones.            *)

\* the brigade count of a card: one for every brigade, "Good Multi" and
\* "Evil Multi" for as many as there are good and evil brigades
BrigadeCount(card) ==
    LET at(b) == Cardinality({k \in 1..Len(card.brigade) : card.brigade[k] = b})
    IN    at("Good Multi") * Cardinality(GOOD_BRIGADES)
        + at("Evil Multi") * Cardinality(EVIL_BRIGADES)
        + (Len(card.brigade) - at("Good Multi") - at("Evil Multi"))

\* C29: remove(type="MostBrigades") of models_v2.py removes and returns a
\* card that is not a lost soul and whose brigade count no other card of the
\* zone that is not a lost soul exceeds; on a zone without such a card it
\* returns None and leaves the zone as it was.
C29_MostBrigades ==
    (Returned("Zone_v2", "remove") /\ cfg.type = "MostBrigades" /\ cfg.name = "") =>
        LET non == {i \in 1..Len(before) : before[i].type # "Lost Soul"}
        IN  /\ err = ""
            /\ IF non = {} THEN result = None /\ deck = before
               ELSE \E i \in non :
                       /\ result = before[i]
                       /\ deck = RemoveAt(before, i)
                       /\ \A j \in non :
                              BrigadeCount(before[j]) <= BrigadeCount(before[i])

\* the card with the most brigades was removed from below another card that
\* is not a lost soul
C29_Witness ==
    /\ Returned("Zone_v2", "remove") /\ cfg.type = "MostBrigades"
    /\ result # None
    /\ \E j \in 1..Len(deck) :
           /\ deck[j].type # "Lost Soul"
           /\ BrigadeCount(deck[j]) < BrigadeCount(result)
           /\ before[j] = deck[j]

\* C30: draw_n(k) with k <= 0, of models.py and of models_v2.py, raises
\* ValueError and leaves the Deck as it was.
C30_DrawNOfNoCard ==
    ((Returned("Zone", "draw_n") \/ Returned("Zone_v2", "draw_n")) /\ cfg.n <= 0) =>
        err = "ValueError" /\ deck = before

\* draw_n was called with a negative number on a Deck that holds cards
C30_Witness ==
    /\ Returned("Zone_v2", "draw_n")
    /\ cfg.n < 0
    /\ before # <<>>
    /\ err = "ValueError"

\* C31: search_for called with no criterion (no card_type and no subtype in
\* models.py; no name, no type and no tags in models_v2.py) raises
\* ValueError and leaves the zone as it was, whatever top_n is
C31_SearchForNoCriterion ==
    (\/ /\ Returned("Zone", "search_for")
        /\ cfg.card_type = "" /\ cfg.subtype = ""
     \/ /\ Returned("Zone_v2", "search_for")
        /\ cfg.name = "" /\ cfg.type = "" /\ cfg.tags = "")
    => err = "ValueError" /\ deck = before

\* search_for(top_n=2) was called without a criterion on a models_v2.py
\* zone that holds cards
C31_Witness ==
    /\ Returned("Zone_v2", "search_for")
    /\ cfg.name = "" /\ cfg.type = "" /\ cfg.tags = ""
    /\ cfg.top_n = 2
    /\ Len(before) >= 2
    /\ err = "ValueError"

----------------------------------------------------------------------------
(* Claims about the scenario.                                              *)

\* the lost souls of the scenario that are not in the Deck
ScenarioSoulsDrawn ==
    {c \in Range(ScenarioTemplate) : IsLostSoul(c) /\ c \notin Range(deck)}

\* C32: in the scenario, when the opening hand of 8 has been drawn and the
\* lost-soul loop has ended, the Deck, the Hand and the Territory hold as
\* many cards together as the template, the Discard is empty, and the
\* Territory holds the lost souls that left the Deck, each once, and
\* nothing else
C32_OpeningHandConservation ==
    (cfg \in ScenarioConfigs /\ pc = "turn" /\ turn_number = 1) =>
        /\ Len(deck) + Len(hand) + Len(territory) = Len(ScenarioTemplate)
        /\ discard = <<>>
        /\ Range(territory) = ScenarioSoulsDrawn
        /\ Len(territory) = Cardinality(ScenarioSoulsDrawn)

\* both lost souls of the scenario were drawn, in the opening hand or as
\* replacements, and are in the Territory
C32_Witness ==
    /\ cfg \in ScenarioConfigs
    /\ pc = "turn"
    /\ turn_number = 1
    /\ n_iter = 2
    /\ Len(territory) = 2
    /\ Len(hand) = OpeningHandSize
    /\ Len(deck) = Len(ScenarioTemplate) - OpeningHandSize - 2

----------------------------------------------------------------------------
(* Claims about the cards the lost souls move.                             *)

\* no entry of the zone is None
NoNone(cards) == \A i \in 1..Len(cards) : cards[i] # None

\* C33: in Simulation and in SpectrographSimulation no zone ever holds an
\* entry that is not a card: the cycler and the prosperity lost souls put
\* no None in the Deck, the Discard, the Hand or the Territory
C33_NoNoneInZones ==
    prog \in {"Simulation", "SpectrographSimulation"} =>
        NoNone(deck) /\ NoNone(discard) /\ NoNone(hand) /\ NoNone(territory)

\* a turn of the trial has ended and no later call has moved a card
TurnEnded ==
    prog = "Simulation" /\ Observed /\ log_file # <<>>

\* the number of places the macguffin has in cards
MacguffinPlaces(cards) ==
    Cardinality({i \in 1..Len(cards) :
                    cards[i] # None /\ cards[i].card_type = "macguffin"})

\* C34: in a trial of Simulation the macguffin_in_territory flag of the turn
\* records never goes from true back to false, and at the end of every turn
\* the macguffin is in exactly one of Deck, Hand and Territory
C34_MacguffinStays ==
    prog = "Simulation" =>
        /\ \A i, j \in 1..Len(log_file) :
               (i < j /\ log_file[i].macguffin_in_territory)
                   => log_file[j].macguffin_in_territory
        /\ TurnEnded =>
               MacguffinPlaces(deck) + MacguffinPlaces(hand)
                   + MacguffinPlaces(territory) = 1

----------------------------------------------------------------------------
(* Claims about the lost souls of the template.                            *)

\* the constructor returned a Simulation of a valid configuration: the
\* special lost souls are not more than the lost souls required
ConstructedValid ==
    /\ prog = "__init__"
    /\ pc = "returned"
    /\ (IF cfg.prosperity THEN 1 ELSE 0) + cfg.n_cycler_souls
           <= determine_lost_souls_required(cfg.deck_size)

\* the number of lost_soul cards of the template
LostSoulsOfTemplate == Cardinality(OfType(deck, "lost_soul"))

\* C35 as stated: in every valid configuration the template holds as many
\* lost_soul cards as determine_lost_souls_required(deck_size), with or
\* without the hopper
C35_SoulsAsRequired ==
    ConstructedValid =>
        LostSoulsOfTemplate = determine_lost_souls_required(cfg.deck_size)

\* C35: in every valid configuration the prosperity and the cycler lost
\* souls replace ordinary ones and the hopper is one lost soul more: the
\* template holds as many lost_soul cards as
\* determine_lost_souls_required(deck_size), plus one with the hopper
C35_SoulsAsRequiredAndHopper ==
    ConstructedValid =>
        LostSoulsOfTemplate = determine_lost_souls_required(cfg.deck_size)
                                + (IF cfg.hopper THEN 1 ELSE 0)

\* a template with the hopper, the prosperity and two cycler lost souls was
\* generated: it holds one lost soul more than required
C35_Witness ==
    /\ ConstructedValid
    /\ cfg.hopper /\ cfg.prosperity /\ cfg.n_cycler_souls = 2
    /\ LostSoulsOfTemplate = determine_lost_souls_required(cfg.deck_size) + 1

\* C36: when Simulation plays a cycler or a prosperity lost soul, every
\* macguffin and every tutor of the Hand stays in the Hand, the effect moves
\* and draws nothing when the Hand holds a macguffin or a tutor, and what it
\* puts in the Deck or in the Discard has card_type non_lost_soul
C36_EffectsSpareGoalCards ==
    [][(LoopIteration /\ PlayedSoul.subtype \in {"cycler", "prosperity"})
       => LET h == HandAfterReplacement
              d == DeckAfterReplacement
          IN  /\ \A i \in 1..Len(h) :
                     h[i].card_type \in {"macguffin", "tutor"}
                         => h[i] \in Range(hand')
              /\ HoldsGoal(h) =>
                     hand' = h /\ deck' = d /\ discard' = discard
              /\ \A e \in (Range(deck') \ Range(d))
                               \cup (Range(discard') \ Range(discard)) :
                     e.card_type = "non_lost_soul"]_vars

----------------------------------------------------------------------------
(* Claims about the solitaire turn.                                        *)

\* the number of cards of the zone with the given name
NameCount(cards, name) ==
    Cardinality({i \in 1..Len(cards) :
                    cards[i] # None /\ cards[i].name = name})

\* C37: in a solitaire turn that starts with an empty Discard and an empty
\* Territory, at most one Delivered is moved from the Hand to the Discard
\* and at most one Denarius enters the Territory, whatever the Hand and the
\* Deck hold
C37_OneDeliveredOneDenarius ==
    (prog = "SpectrographSimulation" /\ cfg \in SolitaireConfigs) =>
        /\ NameCount(discard, Delivered) <= 1
        /\ NameCount(territory, Denarius) <= 1

----------------------------------------------------------------------------
(* Claims about the brigade count.                                         *)

\* the brigades of the cards of the Hand that are not a printing of Doubt,
\* "Good Multi" and "Evil Multi" standing for every good and every evil
\* brigade
BrigadesWithoutDoubt ==
    UNION {IF b = "Good Multi" THEN GOOD_BRIGADES
           ELSE IF b = "Evil Multi" THEN EVIL_BRIGADES
           ELSE {b} :
             b \in UNION {Range(hand[i].brigade) :
                            i \in {j \in 1..Len(hand) :
                                      hand[j].name \notin
                                          {"Doubt (LoC Plus)", "Doubt (LoC)"}}}}

\* C38: _count_n_brigades_in_hand returns the number of distinct brigades
\* of the cards of the Hand, "Good Multi" and "Evil Multi" expanded, the
\* cards named "Doubt (LoC Plus)" and "Doubt (LoC)" left out
C38_BrigadesWithoutDoubt ==
    (prog = "_count_n_brigades_in_hand" /\ pc = "returned") =>
        result = Cardinality(BrigadesWithoutDoubt)

====
